---- MODULE Spec2Model ----
(***************************************************************************)
(* Model of the policy-gated mutation pipeline of the Softnix Code Agent:  *)
(* PolicyGate (core/policy.ts), PatchTools (tools/patch-tools.ts),         *)
(* ExecTools (tools/exec-tools.ts) and AuditLogger                         *)
(* (security/audit-logger.ts).                                             *)
(*                                                                         *)
(* Strings of the program (paths, glob patterns, commands) are sequences   *)
(* of one-character strings, so that matching, trimming, splitting and     *)
(* prefix tests are computed character by character as the code does.      *)
(* File contents are sequences of lines.                                   *)
(***************************************************************************)
EXTENDS Integers, Sequences, FiniteSets, TLC

VARIABLES
    policyConfig,   \* PolicyGate.policyConfig
    tool,           \* the ToolMetadata handed to the checkTool call that just returned
    context,        \* the context map handed to it
    checkResult,    \* the PolicyCheckResult it returned
    policyGate,     \* whether the tools were constructed with a PolicyGate
    fs,             \* the workspace on disk: directory, target file, backup file
    diff,           \* the DiffResult the caller holds
    auditLog,       \* the lines of the audit log file
    spawned,        \* the commands that call handed to a child process
    policyUpdated,  \* whether updatePolicy has been called on the gate
    call,           \* the tool call that just returned: arguments, result, disk before
    proc,           \* the exec call in flight: its child process, timer and promise
    db,             \* the database of the memory store: its rows, counters and clock
    heap            \* the policy objects of the process and who holds a reference to each

vars == <<policyConfig, tool, context, checkResult, policyUpdated, policyGate, fs,
          diff, auditLog, spawned, call, proc, db, heap>>

gateVars == <<policyConfig, tool, context, checkResult, policyUpdated>>
toolVars == <<policyGate, fs, diff, auditLog, spawned, call, proc, db, heap>>

(***************************************************************************)
(* Bounds of the model.                                                    *)
(***************************************************************************)
MaxScope == 2
MaxLines == 1
MaxDiffs == 3
MaxOutput == 3
MaxBuffer == 2
MaxRecords == 2
\* lines of a text given to the secret scanner
MaxTextLines == 2
\* files of the workspace that grep goes through, lines of each, and the
\* largest maxResults asked for
MaxFiles == 2
MaxFileLines == 2
MaxResults == 2
\* rows ever inserted into the memory store, and seconds its clock runs
MaxRowId == 2
MaxClock == 1

(***************************************************************************)
(* Helpers on character sequences.                                         *)
(***************************************************************************)
RECURSIVE SplitOn(_, _, _)
\* String.prototype.split on a one-character separator: cur is the piece
\* being read.
SplitOn(s, sep, cur) ==
    IF s = <<>> THEN <<cur>>
    ELSE IF Head(s) = sep THEN <<cur>> \o SplitOn(Tail(s), sep, <<>>)
    ELSE SplitOn(Tail(s), sep, Append(cur, Head(s)))

RECURSIVE TrimStart(_)
TrimStart(s) ==
    IF s /= <<>> /\ Head(s) = " " THEN TrimStart(Tail(s)) ELSE s

RECURSIVE TrimEnd(_)
TrimEnd(s) ==
    IF s /= <<>> /\ s[Len(s)] = " " THEN TrimEnd(SubSeq(s, 1, Len(s) - 1)) ELSE s

\* String.prototype.trim
Trim(s) == TrimEnd(TrimStart(s))

RECURSIVE FirstWord(_)
\* command.trim().split(/\s+/)[0] applied to an already trimmed string: the
\* characters before the first whitespace.
FirstWord(s) ==
    IF s = <<>> \/ Head(s) = " " THEN <<>>
    ELSE <<Head(s)>> \o FirstWord(Tail(s))

\* String.prototype.startsWith
StartsWith(s, prefix) ==
    /\ Len(prefix) <= Len(s)
    /\ SubSeq(s, 1, Len(prefix)) = prefix

\* String.prototype.includes for a single character
Includes(s, ch) == \E i \in 1..Len(s) : s[i] = ch

(***************************************************************************)
(* minimatch(path, pattern) with its default options (no dot, no           *)
(* matchBase): both are split on "/", a "**" segment is a globstar, "*"    *)
(* matches within one segment.                                             *)
(***************************************************************************)
GLOBSTAR == <<"*", "*">>

RECURSIVE Wild(_, _)
\* One segment against one pattern segment: "*" is any run of characters.
Wild(s, p) ==
    IF p = <<>> THEN s = <<>>
    ELSE IF Head(p) = "*"
         THEN Wild(s, Tail(p)) \/ (s /= <<>> /\ Wild(Tail(s), p))
         ELSE s /= <<>> /\ Head(s) = Head(p) /\ Wild(Tail(s), Tail(p))

\* A segment starting with "." ("." and ".." included) is matched only by a
\* pattern segment that starts with a literal ".".
IsDotSegment(seg) == seg /= <<>> /\ Head(seg) = "."

SegMatch(seg, pat) ==
    IF Includes(pat, "*")
    THEN /\ seg /= <<>>
         /\ (IsDotSegment(seg) => Head(pat) = ".")
         /\ Wild(seg, pat)
    ELSE seg = pat

RECURSIVE MatchOne(_, _)
RECURSIVE GlobStarFrom(_, _)

\* the globstar loop of matchOne: try the rest of the pattern at every
\* position, giving up at the first dot segment swallowed
GlobStarFrom(file, rest) ==
    IF file = <<>> THEN FALSE
    ELSE \/ MatchOne(file, rest)
         \/ /\ ~IsDotSegment(Head(file))
            /\ GlobStarFrom(Tail(file), rest)

MatchOne(file, pat) ==
    IF file = <<>> THEN pat = <<>>
    ELSE IF pat = <<>> THEN file = << <<>> >>
    ELSE IF Head(pat) = GLOBSTAR
         THEN IF Tail(pat) = <<>>
              THEN \A i \in 1..Len(file) : ~IsDotSegment(file[i])
              ELSE GlobStarFrom(file, Tail(pat))
         ELSE SegMatch(Head(file), Head(pat)) /\ MatchOne(Tail(file), Tail(pat))

minimatch(path, pattern) ==
    IF pattern = <<>> THEN path = <<>>
    ELSE MatchOne(SplitOn(path, "/", <<>>), SplitOn(pattern, "/", <<>>))

(***************************************************************************)
(* PolicyGate (core/policy.ts).  The pattern lists are kept as sets: the   *)
(* code reads them only through .some() and .length === 0.                 *)
(***************************************************************************)
isPathDenied(cfg, path) ==
    \E pattern \in cfg.path_denylist : minimatch(path, pattern)

\* a slip: an empty allowlist read as "no restriction"
isPathAllowed_EmptyAllowsAll(cfg, path) ==
    IF cfg.path_allowlist = {} THEN TRUE
    ELSE \E pattern \in cfg.path_allowlist : minimatch(path, pattern)

isPathAllowed(cfg, path) ==
    IF cfg.path_allowlist = {} THEN FALSE
    ELSE \E pattern \in cfg.path_allowlist : minimatch(path, pattern)

\* a slip: the prefix test with its operands exchanged
isCommandAllowed_PrefixSwapped(cfg, command) ==
    LET baseCommand == FirstWord(Trim(command))
    IN  \E pattern \in cfg.exec_allowlist :
            IF Includes(pattern, "*")
            THEN minimatch(baseCommand, pattern)
            ELSE baseCommand = pattern \/ StartsWith(pattern, command)

isCommandAllowed(cfg, command) ==
    LET baseCommand == FirstWord(Trim(command))
    IN  \E pattern \in cfg.exec_allowlist :
            IF Includes(pattern, "*")
            THEN minimatch(baseCommand, pattern)
            ELSE baseCommand = pattern \/ StartsWith(command, pattern)

Denied(reason) ==
    [allowed |-> FALSE, reason |-> reason, requires_confirmation |-> TRUE]

checkReadAccess(cfg, t) ==
    IF "scope" \notin DOMAIN t \/ Len(t.scope) = 0
    THEN [allowed |-> TRUE, requires_confirmation |-> FALSE]
    ELSE IF \E i \in 1..Len(t.scope) : isPathDenied(cfg, t.scope[i])
         THEN Denied("Path is in denylist")
         ELSE [allowed |-> TRUE, requires_confirmation |-> FALSE]

\* a slip: the allowlist consulted without the denylist
checkWriteAccess_AllowlistOnly(cfg, t) ==
    IF "scope" \notin DOMAIN t \/ Len(t.scope) = 0
    THEN Denied("Write operation requires explicit scope")
    ELSE IF \A i \in 1..Len(t.scope) : isPathAllowed(cfg, t.scope[i])
         THEN [allowed |-> TRUE,
               requires_confirmation |-> cfg.require_confirmation]
         ELSE Denied("Cannot write: path is not in allowlist")

checkWriteAccess(cfg, t) ==
    IF "scope" \notin DOMAIN t \/ Len(t.scope) = 0
    THEN Denied("Write operation requires explicit scope")
    ELSE LET \* the loop returns at the first path of the scope that fails
             failing == { i \in 1..Len(t.scope) :
                            \/ isPathDenied(cfg, t.scope[i])
                            \/ ~isPathAllowed(cfg, t.scope[i]) }
             first == CHOOSE i \in failing : \A j \in failing : i <= j
         IN  IF failing = {}
             THEN [allowed |-> TRUE,
                   requires_confirmation |-> cfg.require_confirmation]
             ELSE IF isPathDenied(cfg, t.scope[first])
                  THEN Denied("Cannot write: path is in denylist")
                  ELSE Denied("Cannot write: path is not in allowlist")

\* An absent context, an absent command and the empty command are all falsy.
checkExecAccess(cfg, ctx) ==
    IF "command" \notin DOMAIN ctx \/ ctx.command = <<>>
    THEN Denied("Exec operation requires command in context")
    ELSE IF ~isCommandAllowed(cfg, ctx.command)
         THEN Denied("Command is not in exec allowlist")
         ELSE [allowed |-> TRUE,
               requires_confirmation |-> cfg.require_confirmation]

\* a slip: network access made a matter of configuration
checkNetworkAccess_Configurable(cfg) ==
    IF cfg.require_confirmation
    THEN Denied("Network operations are disabled in local-first mode")
    ELSE [allowed |-> TRUE, requires_confirmation |-> FALSE]

checkNetworkAccess(cfg) ==
    Denied("Network operations are disabled in local-first mode")

checkTool(cfg, t, ctx) ==
    CASE t.risk_level = "read"    -> checkReadAccess(cfg, t)
      [] t.risk_level = "write"   -> checkWriteAccess(cfg, t)
      [] t.risk_level = "exec"    -> checkExecAccess(cfg, ctx)
      [] t.risk_level = "network" -> checkNetworkAccess(cfg)
      [] OTHER                    -> Denied("Unknown risk level")

\* Object.assign(this.policyConfig, newPolicy): the fields newPolicy has
\* replace those of the configuration, the others stay.
updatePolicy(cfg, newPolicy) ==
    [k \in DOMAIN cfg |-> IF k \in DOMAIN newPolicy THEN newPolicy[k] ELSE cfg[k]]

(***************************************************************************)
(* The inputs of the gate: paths, glob patterns and commands.              *)
(* ".e" stands for a dot file such as .env, "s" for src, "k" for secrets.  *)
(***************************************************************************)
Paths ==
    { <<".", "e">>,                 \* .e
      <<"s", "/", "a">>,            \* s/a
      <<"k", "/", "a">>,            \* k/a
      <<"s", "/", ".", "e">> }      \* s/.e

DenyPatterns ==
    { <<".", "e", "*">>,            \* .e*
      <<"k", "/", "*", "*">> }      \* k/**

AllowPatterns ==
    { <<"s", "/", "*", "*">>,       \* s/**
      <<"*", "*">> }                \* **

ExecPatterns ==
    { <<"n", " ", "t">>,            \* "n t", a command with its argument
      <<"p", "*">> }                \* p*

Commands ==
    { <<>>,                         \* the empty command
      <<"n", " ", "t">>,            \* n t
      <<"n">>,                      \* n
      <<" ", "n", " ", "t">>,       \* n t after a leading blank
      <<"p", "y", " ", "a">>,       \* py a
      <<"r", " ", "/">> }           \* r /

RECURSIVE SeqsUpTo(_, _)
\* the sequences over S of length at most n
SeqsUpTo(S, n) ==
    IF n = 0 THEN { <<>> }
    ELSE LET shorter == SeqsUpTo(S, n - 1)
         IN  shorter \cup { Append(q, x) : q \in shorter, x \in S }

Scopes == SeqsUpTo(Paths, MaxScope)

PolicyConfigs ==
    [ exec_allowlist : SUBSET ExecPatterns,
      path_allowlist : SUBSET AllowPatterns,
      path_denylist : SUBSET DenyPatterns,
      require_confirmation : BOOLEAN ]

PolicyFields ==
    { "exec_allowlist", "path_allowlist", "path_denylist", "require_confirmation" }

\* Partial<PolicyConfig>: any subset of the fields, each with a value of its type
PartialPolicies ==
    UNION { { [k \in F |-> c[k]] : c \in PolicyConfigs } : F \in SUBSET PolicyFields }

\* the ToolMetadata a caller can build (name, description and the caller's own
\* requires_confirmation are not read by the gate)
Tools ==
    [ risk_level : {"read", "write", "exec", "network"} ]
    \cup [ risk_level : {"read", "write"}, scope : Scopes ]

Contexts ==
    { [x \in {} |-> 0] } \cup [ command : Commands ]

NoTool == [ risk_level |-> "none" ]
NoContext == [x \in {} |-> 0]
NoResult == [ allowed |-> FALSE, reason |-> "none", requires_confirmation |-> FALSE ]

(***************************************************************************)
(* The diff library as PatchTools uses it.  A file content is the sequence *)
(* of its lines.  Files of the model are shorter than the context of a     *)
(* unified diff, so a patch of two different contents is one hunk that     *)
(* spans the file: the common leading lines, the removed lines, the added  *)
(* lines, the common trailing lines.                                       *)
(***************************************************************************)
Lines == {"a", "b"}
Contents == SeqsUpTo(Lines, MaxLines)

RECURSIVE CommonPrefix(_, _)
CommonPrefix(x, y) ==
    IF x /= <<>> /\ y /= <<>> /\ Head(x) = Head(y)
    THEN 1 + CommonPrefix(Tail(x), Tail(y))
    ELSE 0

Reverse(x) == [i \in 1..Len(x) |-> x[Len(x) + 1 - i]]

Tagged(tag, x) == [i \in 1..Len(x) |-> <<tag, x[i]>>]

\* createTwoFilesPatch(filePath, filePath, oldContent, newContent, ...): the
\* hunks of the patch
createTwoFilesPatch(oldContent, newContent) ==
    IF oldContent = newContent THEN <<>>
    ELSE LET pre == CommonPrefix(oldContent, newContent)
             oldRest == SubSeq(oldContent, pre + 1, Len(oldContent))
             newRest == SubSeq(newContent, pre + 1, Len(newContent))
             post == CommonPrefix(Reverse(oldRest), Reverse(newRest))
         IN  << [ oldStart |-> 1,
                  lines |-> Tagged(" ", SubSeq(oldContent, 1, pre))
                            \o Tagged("-", SubSeq(oldRest, 1, Len(oldRest) - post))
                            \o Tagged("+", SubSeq(newRest, 1, Len(newRest) - post))
                            \o Tagged(" ", SubSeq(oldRest, Len(oldRest) - post + 1,
                                                  Len(oldRest))) ] >>

RECURSIVE Side(_, _)
\* the lines of a hunk that carry one of the tags, in order
Side(lines, tags) ==
    IF lines = <<>> THEN <<>>
    ELSE IF Head(lines)[1] \in tags
         THEN <<Head(lines)[2]>> \o Side(Tail(lines), tags)
         ELSE Side(Tail(lines), tags)

Conflict == <<"false">>

Distance(i, j) == IF i >= j THEN i - j ELSE j - i

\* applyPatch(source, patch) of the library: the hunk's context and removed
\* lines must be found in the source, at the hunk's position or the nearest
\* other one; they are replaced by its context and added lines.  false when
\* they are found nowhere.
applyDiffPatch(source, patch) ==
    IF patch = <<>> THEN source
    ELSE LET hunk == patch[1]
             old == Side(hunk.lines, {" ", "-"})
             new == Side(hunk.lines, {" ", "+"})
             fits == { pos \in 0..(Len(source) - Len(old)) :
                          SubSeq(source, pos + 1, pos + Len(old)) = old }
             want == hunk.oldStart - 1
         IN  IF fits = {} THEN Conflict
             ELSE LET pos == CHOOSE q \in fits :
                                \A r \in fits :
                                    \/ Distance(q, want) < Distance(r, want)
                                    \/ Distance(q, want) = Distance(r, want) /\ q >= r
                  IN  SubSeq(source, 1, pos) \o new
                      \o SubSeq(source, pos + Len(old) + 1, Len(source))

(***************************************************************************)
(* The disk: the directory of the target file, the target file and its     *)
(* sibling <target>.backup.  A file is its content, or NoFile.             *)
(***************************************************************************)
NoFile == <<"ENOENT">>

TargetPath == <<"s", "/", "a">>

\* readFileSync(fullPath), with a missing file read as the empty content
DiskContent(disk) == IF disk.file = NoFile THEN <<>> ELSE disk.file

\* the outcomes of the disk operations of one apply: all succeed; the copy to
\* the backup throws; mkdirSync throws; writeFileSync throws and leaves the
\* target as it was, or leaves it empty; the copy back from the backup throws
\* (after a write that threw and left the target empty, or after a conflict)
IoOutcomes ==
    {"ok", "copyFails", "mkdirFails", "writeFails", "writeTruncates", "rollbackFails"}

ApplyOptions == [ backup : BOOLEAN, dryRun : BOOLEAN ]

(***************************************************************************)
(* PatchTools (tools/patch-tools.ts).                                      *)
(***************************************************************************)
createDiff(filePath, oldContent, newContent) ==
    [ filePath |-> filePath,
      oldContent |-> oldContent,
      newContent |-> newContent,
      patch |-> createTwoFilesPatch(oldContent, newContent),
      hasChanges |-> oldContent /= newContent ]

createDiffFromFile(disk, filePath, newContent) ==
    IF disk.file = NoFile
    THEN createDiff(filePath, <<>>, newContent)
    ELSE createDiff(filePath, disk.file, newContent)

ApplyFailure(d, error) ==
    [ success |-> FALSE, filePath |-> d.filePath, error |-> error ]

\* an exception that leaves applyPatch: the promise of the call is rejected and
\* there is no Apply Result
ApplyRejection(error) == [ rejects |-> error ]

Rejected(result) == "rejects" \in DOMAIN result

\* the catch blocks: copyFileSync(backupPath, fullPath) when a backup was made
Rollback(disk, backupMade) ==
    IF backupMade /\ disk.backup /= NoFile
    THEN [disk EXCEPT !.file = disk.backup]
    ELSE disk

\* a slip: the backup copied before the gate is asked
applyPatch_BackupBeforeGate(gate, cfg, disk, d, options, io) ==
    LET check == checkTool(cfg, [risk_level |-> "write", scope |-> <<d.filePath>>],
                           [x \in {} |-> 0])
        backupMade == options.backup /\ disk.file /= NoFile
        backedUp == IF backupMade THEN [disk EXCEPT !.backup = disk.file] ELSE disk
        patched == applyDiffPatch(d.oldContent, d.patch)
        conflicts == "Patch cannot be applied (conflicts detected)"
    IN  IF gate /\ ~check.allowed
        THEN [ result |-> ApplyFailure(d, <<"Policy denied", check.reason>>),
               fs |-> backedUp ]
        ELSE IF ~d.hasChanges
        THEN [ result |-> [success |-> TRUE, filePath |-> d.filePath], fs |-> disk ]
        ELSE IF options.dryRun
        THEN IF patched = Conflict
             THEN [ result |-> ApplyFailure(d, <<conflicts>>), fs |-> disk ]
             ELSE [ result |-> [success |-> TRUE, filePath |-> d.filePath],
                    fs |-> disk ]
        ELSE IF backupMade /\ io = "copyFails"
        THEN [ result |-> ApplyFailure(d, <<"Failed to create backup", "EIO">>),
               fs |-> disk ]
        ELSE IF patched = Conflict
        THEN [ result |-> ApplyFailure(d, <<conflicts>>),
               fs |-> Rollback(backedUp, backupMade) ]
        ELSE IF ~disk.dir /\ io = "mkdirFails"
        THEN [ result |-> ApplyFailure(d, <<"EIO">>),
               fs |-> Rollback(backedUp, backupMade) ]
        ELSE IF io = "writeFails"
        THEN [ result |-> ApplyFailure(d, <<"EIO">>),
               fs |-> Rollback([backedUp EXCEPT !.dir = TRUE], backupMade) ]
        ELSE [ result |-> IF backupMade
                          THEN [ success |-> TRUE, filePath |-> d.filePath,
                                 backupPath |-> d.filePath \o <<".backup">> ]
                          ELSE [ success |-> TRUE, filePath |-> d.filePath ],
               fs |-> [ dir |-> TRUE, file |-> patched, backup |-> backedUp.backup ] ]

\* a slip: the content written taken from the wrong field of the diff
applyPatch_WritesOldContent(gate, cfg, disk, d, options, io) ==
    LET check == checkTool(cfg, [risk_level |-> "write", scope |-> <<d.filePath>>],
                           [x \in {} |-> 0])
        backupMade == options.backup /\ disk.file /= NoFile
        backedUp == IF backupMade THEN [disk EXCEPT !.backup = disk.file] ELSE disk
        patched == applyDiffPatch(d.oldContent, d.patch)
        conflicts == "Patch cannot be applied (conflicts detected)"
    IN  IF gate /\ ~check.allowed
        THEN [ result |-> ApplyFailure(d, <<"Policy denied", check.reason>>),
               fs |-> disk ]
        ELSE IF ~d.hasChanges
        THEN [ result |-> [success |-> TRUE, filePath |-> d.filePath], fs |-> disk ]
        ELSE IF options.dryRun
        THEN IF patched = Conflict
             THEN [ result |-> ApplyFailure(d, <<conflicts>>), fs |-> disk ]
             ELSE [ result |-> [success |-> TRUE, filePath |-> d.filePath],
                    fs |-> disk ]
        ELSE IF backupMade /\ io = "copyFails"
        THEN [ result |-> ApplyFailure(d, <<"Failed to create backup", "EIO">>),
               fs |-> disk ]
        ELSE IF patched = Conflict
        THEN [ result |-> ApplyFailure(d, <<conflicts>>),
               fs |-> Rollback(backedUp, backupMade) ]
        ELSE IF ~disk.dir /\ io = "mkdirFails"
        THEN [ result |-> ApplyFailure(d, <<"EIO">>),
               fs |-> Rollback(backedUp, backupMade) ]
        ELSE IF io = "writeFails"
        THEN [ result |-> ApplyFailure(d, <<"EIO">>),
               fs |-> Rollback([backedUp EXCEPT !.dir = TRUE], backupMade) ]
        ELSE [ result |-> IF backupMade
                          THEN [ success |-> TRUE, filePath |-> d.filePath,
                                 backupPath |-> d.filePath \o <<".backup">> ]
                          ELSE [ success |-> TRUE, filePath |-> d.filePath ],
               fs |-> [ dir |-> TRUE, file |-> d.oldContent,
                        backup |-> backedUp.backup ] ]

\* a slip: the backup copied before the dry-run test
applyPatch_DryRunAfterBackup(gate, cfg, disk, d, options, io) ==
    LET check == checkTool(cfg, [risk_level |-> "write", scope |-> <<d.filePath>>],
                           [x \in {} |-> 0])
        backupMade == options.backup /\ disk.file /= NoFile
        backedUp == IF backupMade THEN [disk EXCEPT !.backup = disk.file] ELSE disk
        patched == applyDiffPatch(d.oldContent, d.patch)
        conflicts == "Patch cannot be applied (conflicts detected)"
    IN  IF gate /\ ~check.allowed
        THEN [ result |-> ApplyFailure(d, <<"Policy denied", check.reason>>),
               fs |-> disk ]
        ELSE IF ~d.hasChanges
        THEN [ result |-> [success |-> TRUE, filePath |-> d.filePath], fs |-> disk ]
        ELSE IF options.dryRun
        THEN IF patched = Conflict
             THEN [ result |-> ApplyFailure(d, <<conflicts>>), fs |-> disk ]
             ELSE [ result |-> [success |-> TRUE, filePath |-> d.filePath],
                    fs |-> backedUp ]
        ELSE IF backupMade /\ io = "copyFails"
        THEN [ result |-> ApplyFailure(d, <<"Failed to create backup", "EIO">>),
               fs |-> disk ]
        ELSE IF patched = Conflict
        THEN [ result |-> ApplyFailure(d, <<conflicts>>),
               fs |-> Rollback(backedUp, backupMade) ]
        ELSE IF ~disk.dir /\ io = "mkdirFails"
        THEN [ result |-> ApplyFailure(d, <<"EIO">>),
               fs |-> Rollback(backedUp, backupMade) ]
        ELSE IF io = "writeFails"
        THEN [ result |-> ApplyFailure(d, <<"EIO">>),
               fs |-> Rollback([backedUp EXCEPT !.dir = TRUE], backupMade) ]
        ELSE [ result |-> IF backupMade
                          THEN [ success |-> TRUE, filePath |-> d.filePath,
                                 backupPath |-> d.filePath \o <<".backup">> ]
                          ELSE [ success |-> TRUE, filePath |-> d.filePath ],
               fs |-> [ dir |-> TRUE, file |-> patched, backup |-> backedUp.backup ] ]

\* a slip: the test for a diff without changes made only in a dry run
applyPatch_NoChangesOnlyDryRun(gate, cfg, disk, d, options, io) ==
    LET check == checkTool(cfg, [risk_level |-> "write", scope |-> <<d.filePath>>],
                           [x \in {} |-> 0])
        backupMade == options.backup /\ disk.file /= NoFile
        backedUp == IF backupMade THEN [disk EXCEPT !.backup = disk.file] ELSE disk
        patched == applyDiffPatch(d.oldContent, d.patch)
        conflicts == "Patch cannot be applied (conflicts detected)"
    IN  IF gate /\ ~check.allowed
        THEN [ result |-> ApplyFailure(d, <<"Policy denied", check.reason>>),
               fs |-> disk ]
        ELSE IF ~d.hasChanges /\ options.dryRun
        THEN [ result |-> [success |-> TRUE, filePath |-> d.filePath], fs |-> disk ]
        ELSE IF options.dryRun
        THEN IF patched = Conflict
             THEN [ result |-> ApplyFailure(d, <<conflicts>>), fs |-> disk ]
             ELSE [ result |-> [success |-> TRUE, filePath |-> d.filePath],
                    fs |-> disk ]
        ELSE IF backupMade /\ io = "copyFails"
        THEN [ result |-> ApplyFailure(d, <<"Failed to create backup", "EIO">>),
               fs |-> disk ]
        ELSE IF patched = Conflict
        THEN [ result |-> ApplyFailure(d, <<conflicts>>),
               fs |-> Rollback(backedUp, backupMade) ]
        ELSE IF ~disk.dir /\ io = "mkdirFails"
        THEN [ result |-> ApplyFailure(d, <<"EIO">>),
               fs |-> Rollback(backedUp, backupMade) ]
        ELSE IF io = "writeFails"
        THEN [ result |-> ApplyFailure(d, <<"EIO">>),
               fs |-> Rollback([backedUp EXCEPT !.dir = TRUE], backupMade) ]
        ELSE [ result |-> IF backupMade
                          THEN [ success |-> TRUE, filePath |-> d.filePath,
                                 backupPath |-> d.filePath \o <<".backup">> ]
                          ELSE [ success |-> TRUE, filePath |-> d.filePath ],
               fs |-> [ dir |-> TRUE, file |-> patched, backup |-> backedUp.backup ] ]

\* a slip: the backup copied after the file is written
applyPatch_BackupAfterWrite(gate, cfg, disk, d, options, io) ==
    LET check == checkTool(cfg, [risk_level |-> "write", scope |-> <<d.filePath>>],
                           [x \in {} |-> 0])
        backupMade == options.backup /\ disk.file /= NoFile
        backedUp == IF backupMade THEN [disk EXCEPT !.backup = disk.file] ELSE disk
        patched == applyDiffPatch(d.oldContent, d.patch)
        conflicts == "Patch cannot be applied (conflicts detected)"
    IN  IF gate /\ ~check.allowed
        THEN [ result |-> ApplyFailure(d, <<"Policy denied", check.reason>>),
               fs |-> disk ]
        ELSE IF ~d.hasChanges
        THEN [ result |-> [success |-> TRUE, filePath |-> d.filePath], fs |-> disk ]
        ELSE IF options.dryRun
        THEN IF patched = Conflict
             THEN [ result |-> ApplyFailure(d, <<conflicts>>), fs |-> disk ]
             ELSE [ result |-> [success |-> TRUE, filePath |-> d.filePath],
                    fs |-> disk ]
        ELSE IF backupMade /\ io = "copyFails"
        THEN [ result |-> ApplyFailure(d, <<"Failed to create backup", "EIO">>),
               fs |-> disk ]
        ELSE IF patched = Conflict
        THEN [ result |-> ApplyFailure(d, <<conflicts>>),
               fs |-> Rollback(backedUp, backupMade) ]
        ELSE IF ~disk.dir /\ io = "mkdirFails"
        THEN [ result |-> ApplyFailure(d, <<"EIO">>),
               fs |-> Rollback(backedUp, backupMade) ]
        ELSE IF io = "writeFails"
        THEN [ result |-> ApplyFailure(d, <<"EIO">>),
               fs |-> Rollback([backedUp EXCEPT !.dir = TRUE], backupMade) ]
        ELSE [ result |-> IF backupMade
                          THEN [ success |-> TRUE, filePath |-> d.filePath,
                                 backupPath |-> d.filePath \o <<".backup">> ]
                          ELSE [ success |-> TRUE, filePath |-> d.filePath ],
               fs |-> [ dir |-> TRUE, file |-> patched,
                        backup |-> IF backupMade THEN patched ELSE disk.backup ] ]

\* applyPatch(diff, options) on the disk, with the outcome io of its disk
\* operations: the Apply Result and the disk it leaves
applyPatch(gate, cfg, disk, d, options, io) ==
    LET check == checkTool(cfg, [risk_level |-> "write", scope |-> <<d.filePath>>],
                           [x \in {} |-> 0])
        backupMade == options.backup /\ disk.file /= NoFile
        backedUp == IF backupMade THEN [disk EXCEPT !.backup = disk.file] ELSE disk
        patched == applyDiffPatch(d.oldContent, d.patch)
        conflicts == "Patch cannot be applied (conflicts detected)"
    IN  IF gate /\ ~check.allowed
        THEN [ result |-> ApplyFailure(d, <<"Policy denied", check.reason>>),
               fs |-> disk ]
        ELSE IF ~d.hasChanges
        THEN [ result |-> [success |-> TRUE, filePath |-> d.filePath], fs |-> disk ]
        ELSE IF options.dryRun
        THEN IF patched = Conflict
             THEN [ result |-> ApplyFailure(d, <<conflicts>>), fs |-> disk ]
             ELSE [ result |-> [success |-> TRUE, filePath |-> d.filePath],
                    fs |-> disk ]
        ELSE IF backupMade /\ io = "copyFails"
        THEN [ result |-> ApplyFailure(d, <<"Failed to create backup", "EIO">>),
               fs |-> disk ]
        ELSE IF patched = Conflict
        THEN IF backupMade /\ io = "rollbackFails"
             THEN [ result |-> ApplyRejection("EIO"), fs |-> backedUp ]
             ELSE [ result |-> ApplyFailure(d, <<conflicts>>),
                    fs |-> Rollback(backedUp, backupMade) ]
        ELSE IF ~disk.dir /\ io = "mkdirFails"
        THEN [ result |-> ApplyFailure(d, <<"EIO">>),
               fs |-> Rollback(backedUp, backupMade) ]
        ELSE IF io = "writeFails"
        THEN [ result |-> ApplyFailure(d, <<"EIO">>),
               fs |-> Rollback([backedUp EXCEPT !.dir = TRUE], backupMade) ]
        ELSE IF io = "writeTruncates"
        THEN [ result |-> ApplyFailure(d, <<"EIO">>),
               fs |-> Rollback([backedUp EXCEPT !.dir = TRUE, !.file = <<>>],
                               backupMade) ]
        ELSE IF io = "rollbackFails"
        THEN [ result |-> IF backupMade THEN ApplyRejection("EIO")
                          ELSE ApplyFailure(d, <<"EIO">>),
               fs |-> [backedUp EXCEPT !.dir = TRUE, !.file = <<>>] ]
        ELSE [ result |-> IF backupMade
                          THEN [ success |-> TRUE, filePath |-> d.filePath,
                                 backupPath |-> d.filePath \o <<".backup">> ]
                          ELSE [ success |-> TRUE, filePath |-> d.filePath ],
               fs |-> [ dir |-> TRUE, file |-> patched, backup |-> backedUp.backup ] ]

RECURSIVE ApplyLoop_NoBreak(_, _, _, _, _, _, _)
\* a slip: the loop going on after a failure
ApplyLoop_NoBreak(gate, cfg, disk, diffs, options, ios, results) ==
    IF diffs = <<>> THEN [ results |-> results, fs |-> disk ]
    ELSE LET first == applyPatch(gate, cfg, disk, Head(diffs), options, Head(ios))
         IN  IF ~first.result.success /\ ~options.dryRun /\ Tail(diffs) = <<>>
             THEN [ results |-> Append(results, first.result), fs |-> first.fs ]
             ELSE ApplyLoop_NoBreak(gate, cfg, first.fs, Tail(diffs), options,
                                    Tail(ios), Append(results, first.result))

RECURSIVE ApplyLoop(_, _, _, _, _, _, _)
\* the loop of applyPatches: results holds the results pushed so far, ios the
\* outcome of the disk operations of each diff in turn; it breaks at the first
\* failure unless options.dryRun, and an exception of applyPatch leaves it
ApplyLoop(gate, cfg, disk, diffs, options, ios, results) ==
    IF diffs = <<>> THEN [ results |-> results, fs |-> disk ]
    ELSE LET first == applyPatch(gate, cfg, disk, Head(diffs), options, Head(ios))
         IN  IF Rejected(first.result)
             THEN [ rejects |-> first.result.rejects, results |-> results,
                    fs |-> first.fs ]
             ELSE IF ~first.result.success /\ ~options.dryRun
             THEN [ results |-> Append(results, first.result), fs |-> first.fs ]
             ELSE ApplyLoop(gate, cfg, first.fs, Tail(diffs), options, Tail(ios),
                            Append(results, first.result))

\* applyPatches(diffs, options): the results in order and the disk left
applyPatches(gate, cfg, disk, diffs, options, ios) ==
    ApplyLoop(gate, cfg, disk, diffs, options, ios, <<>>)

(***************************************************************************)
(* ExecTools (tools/exec-tools.ts).  child is what the child process does: *)
(* it exits with status 0 or with status 1.                                *)
(***************************************************************************)
ChildOutcomes == {"exit0", "exit1"}

ExecDenied(command, check) ==
    [ result |-> [ success |-> FALSE, stdout |-> "", stderr |-> "", exitCode |-> -1,
                   command |-> command,
                   error |-> <<"Policy denied", check.reason>> ],
      spawned |-> {} ]

execute(gate, cfg, command, child) ==
    LET check == checkTool(cfg, [risk_level |-> "exec"], [command |-> command])
    IN  IF gate /\ ~check.allowed THEN ExecDenied(command, check)
        ELSE [ result |-> IF child = "exit0"
                          THEN [ success |-> TRUE, stdout |-> "out", stderr |-> "",
                                 exitCode |-> 0, command |-> command ]
                          ELSE [ success |-> FALSE, stdout |-> "", stderr |-> "err",
                                 exitCode |-> 1, command |-> command,
                                 error |-> <<"Command failed">> ],
               spawned |-> {command} ]

\* on close: success is code === 0 and exitCode is code || -1
executeStream(gate, cfg, command, child) ==
    LET check == checkTool(cfg, [risk_level |-> "exec"], [command |-> command])
        code == IF child = "exit0" THEN 0 ELSE 1
    IN  IF gate /\ ~check.allowed THEN ExecDenied(command, check)
        ELSE [ result |-> [ success |-> code = 0,
                            stdout |-> IF code = 0 THEN "out" ELSE "",
                            stderr |-> IF code = 0 THEN "" ELSE "err",
                            exitCode |-> IF code = 0 THEN -1 ELSE code,
                            command |-> command ],
               spawned |-> {command} ]

(***************************************************************************)
(* The environment of the child.  An environment is a function from the    *)
(* names of its variables to their values.                                 *)
(***************************************************************************)
\* String.prototype.includes for a string
IncludesStr(s, sub) ==
    \E i \in 1..(Len(s) - Len(sub) + 1) : SubSeq(s, i, i + Len(sub) - 1) = sub

\* const allowlist of scrubEnvironment
EnvAllowlist ==
    { <<"P", "A", "T", "H">>,
      <<"H", "O", "M", "E">>,
      <<"U", "S", "E", "R">>,
      <<"S", "H", "E", "L", "L">>,
      <<"L", "A", "N", "G">>,
      <<"P", "W", "D">>,
      <<"N", "O", "D", "E", "_", "E", "N", "V">>,
      <<"N", "O", "D", "E", "_", "O", "P", "T", "I", "O", "N", "S">>,
      <<"N", "P", "M", "_", "C", "O", "N", "F", "I", "G", "_">> }

\* the substrings of a name that make the variable sensitive
SensitiveMarkers ==
    { <<"S", "E", "C", "R", "E", "T">>,
      <<"P", "A", "S", "S", "W", "O", "R", "D">>,
      <<"T", "O", "K", "E", "N">>,
      <<"A", "P", "I", "_", "K", "E", "Y">>,
      <<"P", "R", "I", "V", "A", "T", "E">> }

scrubEnvironment(env) ==
    LET kept == { key \in DOMAIN env :
                    \/ \E prefix \in EnvAllowlist : StartsWith(key, prefix)
                    \/ ~\E marker \in SensitiveMarkers : IncludesStr(key, marker) }
    IN  [ key \in kept |-> env[key] ]

\* { ...process.env, ...env }
MergeEnv(processEnv, env) ==
    [ key \in DOMAIN processEnv \cup DOMAIN env |->
        IF key \in DOMAIN env THEN env[key] ELSE processEnv[key] ]

\* names of variables: allowlisted, ordinary, sensitive, and sensitive names
\* that start with an allowlist entry
EnvNames ==
    { <<"P", "A", "T", "H">>,
      <<"C", "I">>,
      <<"U", "S", "E", "R", "_", "T", "O", "K", "E", "N">>,
      <<"N", "P", "M", "_", "C", "O", "N", "F", "I", "G", "_", "T", "O", "K", "E", "N">>,
      <<"A", "P", "I", "_", "K", "E", "Y">>,
      <<"M", "Y", "_", "S", "E", "C", "R", "E", "T">>,
      <<"D", "B", "_", "P", "A", "S", "S", "W", "O", "R", "D">>,
      <<"P", "R", "I", "V", "A", "T", "E">> }

NoEnv == [ key \in {} |-> "" ]

\* process.env: nothing, or every name, inherited
ProcessEnvs == { NoEnv, [ key \in EnvNames |-> "inherited" ] }

\* options.env: nothing, or one name overridden by the caller
OptEnvs == { NoEnv } \cup { [ key \in {name} |-> "override" ] : name \in EnvNames }

(***************************************************************************)
(* The tools' side of the state when only the gate is exercised.           *)
(***************************************************************************)
NoCall == [ op |-> "none" ]
NoProc == [ op |-> "none" ]
\* no memory store has been opened
NoDb == [ rows |-> {} ]
\* no configuration manager and no gate has been constructed
NoHeap == [ objects |-> <<>> ]
NoDiff == [ filePath |-> <<>>, oldContent |-> <<>>, newContent |-> <<>>,
            patch |-> <<>>, hasChanges |-> FALSE ]

InitTools ==
    /\ policyGate = FALSE
    /\ fs = [ dir |-> TRUE, file |-> NoFile, backup |-> NoFile ]
    /\ diff = NoDiff
    /\ auditLog = <<>>
    /\ spawned = {}
    /\ call = NoCall
    /\ proc = NoProc
    /\ db = NoDb
    /\ heap = NoHeap

(***************************************************************************)
(* The gate on its own.  A caller evaluates a tool, takes the decision,    *)
(* and may update the policy between evaluations.  tool, context and       *)
(* checkResult are the evaluation whose decision the caller has not taken  *)
(* yet.                                                                    *)
(***************************************************************************)
InitGate ==
    /\ policyConfig \in PolicyConfigs
    /\ tool = NoTool
    /\ context = NoContext
    /\ checkResult = NoResult
    /\ policyUpdated = FALSE
    /\ InitTools

CheckTool(t, ctx) ==
    /\ tool = NoTool
    /\ tool' = t
    /\ context' = ctx
    /\ checkResult' = checkTool(policyConfig, t, ctx)
    /\ UNCHANGED <<policyConfig, policyUpdated, toolVars>>

\* exec tools are evaluated with their context, the others without
CheckToolCall ==
    \E t \in Tools :
        \E ctx \in (IF t.risk_level = "exec" THEN Contexts ELSE {NoContext}) :
            CheckTool(t, ctx)

TakeDecision ==
    /\ tool /= NoTool
    /\ tool' = NoTool
    /\ context' = NoContext
    /\ checkResult' = NoResult
    /\ UNCHANGED <<policyConfig, policyUpdated, toolVars>>

UpdatePolicy ==
    /\ tool = NoTool
    /\ \E newPolicy \in PartialPolicies :
         policyConfig' = updatePolicy(policyConfig, newPolicy)
    /\ policyUpdated' = TRUE
    /\ UNCHANGED <<tool, context, checkResult, toolVars>>

NextGate == CheckToolCall \/ TakeDecision \/ UpdatePolicy

SpecGate == InitGate /\ [][NextGate]_vars

(***************************************************************************)
(* Properties of the gate, stated on the last evaluation with the glob     *)
(* matcher applied directly to the lists of the policy.                    *)
(***************************************************************************)
MatchesAny(path, patterns) == \E pattern \in patterns : minimatch(path, pattern)

EvaluatedScope == IF "scope" \in DOMAIN tool THEN tool.scope ELSE <<>>

\* C1: a read or a write of a single path that matches a glob of the denylist is
\* denied, whether or not the path also matches a glob of the allowlist.
C1_DenylistPrecedence ==
    ( /\ tool.risk_level \in {"read", "write"}
      /\ Len(EvaluatedScope) = 1
      /\ MatchesAny(EvaluatedScope[1], policyConfig.path_denylist) )
    => checkResult.allowed = FALSE

C1_Witness ==
    /\ tool.risk_level = "write"
    /\ Len(EvaluatedScope) = 1
    /\ MatchesAny(EvaluatedScope[1], policyConfig.path_denylist)
    /\ MatchesAny(EvaluatedScope[1], policyConfig.path_allowlist)
    /\ checkResult.allowed = FALSE

LeadingToken(command) == FirstWord(Trim(command))

\* the token is an entry of the allowlist, exactly or through a glob entry
TokenInAllowlist(token) ==
    \E pattern \in policyConfig.exec_allowlist :
        IF Includes(pattern, "*") THEN minimatch(token, pattern) ELSE token = pattern

ExecDeniedByAllowlist ==
    /\ checkResult.allowed = FALSE
    /\ checkResult.reason = "Command is not in exec allowlist"

\* C2 as stated: an exec of a command (a non-empty one: the empty string is no
\* command to the gate) whose leading token is not in the allowlist, exactly or
\* through a glob entry, is denied with "not in exec allowlist".
C2_Original ==
    ( /\ tool.risk_level = "exec"
      /\ "command" \in DOMAIN context
      /\ context.command /= <<>>
      /\ ~TokenInAllowlist(LeadingToken(context.command)) )
    => ExecDeniedByAllowlist

\* C2 amended: an exec of a non-empty command whose leading token is not in the
\* allowlist, exactly or through a glob entry, and which does not start with a
\* non-glob entry of the allowlist, is denied with "not in exec allowlist".
C2_LeadingTokenOrPrefix ==
    ( /\ tool.risk_level = "exec"
      /\ "command" \in DOMAIN context
      /\ context.command /= <<>>
      /\ ~TokenInAllowlist(LeadingToken(context.command))
      /\ \A pattern \in policyConfig.exec_allowlist :
            Includes(pattern, "*") \/ ~StartsWith(context.command, pattern) )
    => ExecDeniedByAllowlist

C2_Witness ==
    /\ tool.risk_level = "exec"
    /\ "command" \in DOMAIN context
    /\ context.command = <<"r", " ", "/">>
    /\ <<"n", " ", "t">> \in policyConfig.exec_allowlist
    /\ ExecDeniedByAllowlist

\* C3: a write is allowed exactly when its scope is not empty and every path of
\* it matches no glob of the denylist and some glob of the allowlist.
C3_WriteAllowedIff ==
    tool.risk_level = "write" =>
        ( checkResult.allowed = TRUE
          <=> /\ Len(EvaluatedScope) > 0
              /\ \A i \in 1..Len(EvaluatedScope) :
                    /\ ~MatchesAny(EvaluatedScope[i], policyConfig.path_denylist)
                    /\ MatchesAny(EvaluatedScope[i], policyConfig.path_allowlist) )

\* a scope whose first path passes and whose second path fails is denied
C3_Witness ==
    /\ tool.risk_level = "write"
    /\ Len(EvaluatedScope) = 2
    /\ ~MatchesAny(EvaluatedScope[1], policyConfig.path_denylist)
    /\ MatchesAny(EvaluatedScope[1], policyConfig.path_allowlist)
    /\ ~MatchesAny(EvaluatedScope[2], policyConfig.path_allowlist)
    /\ checkResult.allowed = FALSE

\* C4: a network action is denied, with a reason, under every policy and after
\* every update of the policy.
C4_NetworkAlwaysDenied ==
    tool.risk_level = "network" =>
        /\ checkResult.allowed = FALSE
        /\ "reason" \in DOMAIN checkResult
        /\ checkResult.reason /= "none"

\* a network action evaluated after the policy was updated to allow all it can
C4_Witness ==
    /\ tool.risk_level = "network"
    /\ policyUpdated
    /\ policyConfig.path_allowlist = AllowPatterns
    /\ policyConfig.path_denylist = {}
    /\ checkResult.allowed = FALSE

(***************************************************************************)
(* The tools in use.  The agent drives one action at a time: it builds a   *)
(* diff and applies it (a diff is applied once), applies a list of diffs,  *)
(* or runs a command.  The tools are built with a gate or without one; the *)
(* policy of a gate that is absent is never read.  The disk operations of  *)
(* a single apply succeed; in a list of diffs one write may throw.  call   *)
(* is the call whose result the caller has not taken yet, call.before the  *)
(* disk as that call found it, spawned the child processes it started.     *)
(***************************************************************************)
ToolPolicies ==
    { c \in PolicyConfigs :
        /\ c.exec_allowlist = ExecPatterns
        /\ c.path_denylist = DenyPatterns
        /\ c.path_allowlist \in { {}, { <<"s", "/", "*", "*">> } }
        /\ c.require_confirmation }

ToolCommands == { <<"n", " ", "t">>, <<"r", " ", "/">> }

Disks ==
    { [ dir |-> FALSE, file |-> NoFile, backup |-> NoFile ] }
    \cup [ dir : {TRUE}, file : Contents \cup {NoFile}, backup : Contents \cup {NoFile} ]

InitToolsSpec ==
    /\ policyConfig \in ToolPolicies
    /\ tool = NoTool
    /\ context = NoContext
    /\ checkResult = NoResult
    /\ policyUpdated = FALSE
    /\ policyGate \in BOOLEAN
    /\ (~policyGate => policyConfig.path_allowlist = {})
    /\ fs \in { d \in Disks : d.backup = NoFile }
    /\ diff = NoDiff
    /\ auditLog = <<>>
    /\ spawned = {}
    /\ call = NoCall
    /\ proc = NoProc
    /\ db = NoDb
    /\ heap = NoHeap

CreateDiff ==
    /\ call = NoCall
    /\ \E oldContent \in Contents, newContent \in Contents :
         diff' = createDiff(TargetPath, oldContent, newContent)
    /\ UNCHANGED <<gateVars, db, heap, policyGate, fs, auditLog, spawned, call, proc>>

CreateDiffFromFile ==
    /\ call = NoCall
    /\ \E newContent \in Contents :
         diff' = createDiffFromFile(fs, TargetPath, newContent)
    /\ UNCHANGED <<gateVars, db, heap, policyGate, fs, auditLog, spawned, call, proc>>

ApplyPatch ==
    /\ call = NoCall
    /\ diff /= NoDiff
    /\ \E options \in ApplyOptions :
         LET r == applyPatch(policyGate, policyConfig, fs, diff, options, "ok")
         IN  /\ fs' = r.fs
             /\ call' = [ op |-> "applyPatch", diff |-> diff, options |-> options,
                          result |-> r.result, before |-> fs,
                          auditBefore |-> auditLog ]
    /\ diff' = NoDiff
    /\ UNCHANGED <<gateVars, db, heap, policyGate, auditLog, spawned, proc>>

\* the diffs a caller hands to applyPatches: a file created, a line changed
PatchPool ==
    { createDiff(TargetPath, <<>>, <<"a">>),
      createDiff(TargetPath, <<"a">>, <<"b">>) }

PatchLists == SeqsUpTo(PatchPool, MaxDiffs) \ { <<>> }

\* the disk operations of each diff of a list: all succeed, or one write throws
IoLists(n) ==
    { [ i \in 1..n |-> IF i = k THEN "writeFails" ELSE "ok" ] : k \in 0..n }

ApplyPatches ==
    /\ call = NoCall
    /\ diff = NoDiff
    /\ \E diffs \in PatchLists, options \in ApplyOptions :
         \E ios \in IoLists(Len(diffs)) :
            LET r == applyPatches(policyGate, policyConfig, fs, diffs, options, ios)
            IN  /\ fs' = r.fs
                /\ call' = [ op |-> "applyPatches", diffs |-> diffs,
                             options |-> options, ios |-> ios,
                             results |-> r.results, before |-> fs,
                             auditBefore |-> auditLog ]
    /\ UNCHANGED <<gateVars, db, heap, policyGate, diff, auditLog, spawned, proc>>

Execute ==
    /\ call = NoCall
    /\ diff = NoDiff
    /\ \E command \in ToolCommands, child \in ChildOutcomes :
         LET r == execute(policyGate, policyConfig, command, child)
         IN  /\ spawned' = r.spawned
             /\ call' = [ op |-> "execute", command |-> command,
                          result |-> r.result, before |-> fs,
                          auditBefore |-> auditLog ]
    /\ UNCHANGED <<gateVars, db, heap, policyGate, fs, diff, auditLog, proc>>

ExecuteStream ==
    /\ call = NoCall
    /\ diff = NoDiff
    /\ \E command \in ToolCommands, child \in ChildOutcomes :
         LET r == executeStream(policyGate, policyConfig, command, child)
         IN  /\ spawned' = r.spawned
             /\ call' = [ op |-> "executeStream", command |-> command,
                          result |-> r.result, before |-> fs,
                          auditBefore |-> auditLog ]
    /\ UNCHANGED <<gateVars, db, heap, policyGate, fs, diff, auditLog, proc>>

\* the caller takes the result of the call
Return ==
    /\ call /= NoCall
    /\ call' = NoCall
    /\ spawned' = {}
    /\ UNCHANGED <<gateVars, db, heap, policyGate, fs, diff, auditLog, proc>>

NextTools ==
    \/ CreateDiff
    \/ CreateDiffFromFile
    \/ ApplyPatch
    \/ ApplyPatches
    \/ Execute
    \/ ExecuteStream
    \/ Return

SpecTools == InitToolsSpec /\ [][NextTools]_vars

(***************************************************************************)
(* Properties of the tools, stated on the call that just returned.         *)
(***************************************************************************)
IsApply == call.op = "applyPatch"
IsExec == call.op \in {"execute", "executeStream"}

\* the decision of the gate for a write of the path, for an exec of the command
WriteDecision(path) ==
    checkTool(policyConfig, [risk_level |-> "write", scope |-> <<path>>], NoContext)

ExecDecision(command) ==
    checkTool(policyConfig, [risk_level |-> "exec"], [command |-> command])

\* the gate is absent or allows the write of the diff's path
ApplyNotDenied == ~policyGate \/ WriteDecision(call.diff.filePath).allowed

PolicyDenied(result, decision) ==
    /\ result.success = FALSE
    /\ result.error = <<"Policy denied", decision.reason>>

\* a denial by the gate has no side effect
DenialHasNoEffect ==
    /\ (IsApply /\ policyGate /\ ~WriteDecision(call.diff.filePath).allowed)
       => (PolicyDenied(call.result, WriteDecision(call.diff.filePath))
           /\ fs = call.before)
    /\ (IsExec /\ policyGate /\ ~ExecDecision(call.command).allowed)
       => (PolicyDenied(call.result, ExecDecision(call.command))
           /\ spawned = {})

C6_AuditedOnce ==
    (IsApply \/ IsExec) =>
        /\ Len(auditLog) = Len(call.auditBefore) + 1
        /\ SubSeq(auditLog, 1, Len(call.auditBefore)) = call.auditBefore
        /\ (call.result.success = FALSE /\ call.result.error[1] = "Policy denied")
           => auditLog[Len(auditLog)].status = "denied"

\* C7: a diff of (old, new) applied, not as a dry run and not denied, to a file
\* whose content is old leaves the file with the content new, and a diff of the
\* file against new then has no changes.
C7_RoundTrip ==
    ( /\ IsApply
      /\ ~call.options.dryRun
      /\ ApplyNotDenied
      /\ call.before.file = call.diff.oldContent )
    => /\ fs.file = call.diff.newContent
       /\ createDiffFromFile(fs, call.diff.filePath, call.diff.newContent).hasChanges
             = FALSE

C7_Witness ==
    /\ IsApply
    /\ ~call.options.dryRun
    /\ policyGate
    /\ WriteDecision(call.diff.filePath).allowed
    /\ call.diff.hasChanges
    /\ call.diff.oldContent /= <<>>
    /\ call.before.file = call.diff.oldContent
    /\ fs.file = call.diff.newContent

\* the patch of the diff cannot be reconciled with the content the call found
\* on disk, which is not the content the diff was computed against
PatchConflictsWithDisk ==
    /\ DiskContent(call.before) /= call.diff.oldContent
    /\ applyDiffPatch(DiskContent(call.before), call.diff.patch) = Conflict

ConflictsDetected(result) ==
    /\ result.success = FALSE
    /\ result.error = <<"Patch cannot be applied (conflicts detected)">>

\* C8 as stated: an apply whose patch cannot be reconciled with the content on
\* disk fails with "conflicts detected" and leaves the file as it found it.
C8_FailsClosedOnConflict ==
    ( /\ IsApply
      /\ ~call.options.dryRun
      /\ ApplyNotDenied
      /\ call.diff.hasChanges
      /\ PatchConflictsWithDisk )
    => /\ ConflictsDetected(call.result)
       /\ fs.file = call.before.file

\* C9 as stated: a dry run succeeds exactly when the patch applies cleanly to
\* the content on disk.
C9_DryRunValidatesAgainstDisk ==
    ( /\ IsApply
      /\ call.options.dryRun
      /\ ApplyNotDenied
      /\ call.diff.hasChanges )
    => ( call.result.success = TRUE
         <=> applyDiffPatch(DiskContent(call.before), call.diff.patch) /= Conflict )

\* C10: a dry run of apply or of apply_all leaves the disk as it found it: the
\* file, the backup and the directory.
C10_DryRunLeavesDisk ==
    ( /\ call.op \in {"applyPatch", "applyPatches"}
      /\ call.options.dryRun )
    => fs = call.before

\* a dry run, with a backup asked, of a diff with changes to an existing file
C10_Witness ==
    /\ IsApply
    /\ call.options = [backup |-> TRUE, dryRun |-> TRUE]
    /\ ApplyNotDenied
    /\ call.diff.hasChanges
    /\ call.before.file /= NoFile
    /\ call.result.success = TRUE
    /\ fs = call.before

\* C11: applying a diff without changes is a no-op whatever the options: the
\* disk (file, backup, directory) is as the call found it, and when the gate
\* does not deny the path the result is a success without a backupPath.
C11_NoChangesNoOp ==
    (IsApply /\ ~call.diff.hasChanges)
    => /\ fs = call.before
       /\ ApplyNotDenied
          => call.result = [ success |-> TRUE, filePath |-> call.diff.filePath ]

\* a real apply, with a backup asked, of a diff without changes to a file that
\* exists, allowed by the gate
C11_Witness ==
    /\ IsApply
    /\ ~call.diff.hasChanges
    /\ call.options = [backup |-> TRUE, dryRun |-> FALSE]
    /\ policyGate
    /\ WriteDecision(call.diff.filePath).allowed
    /\ call.before.file /= NoFile
    /\ call.result.success = TRUE

\* the path of the backup of the target
BackupPath(filePath) == filePath \o <<".backup">>

\* no backup is made when none was asked or the target did not exist
NoBackupWithoutCause ==
    (IsApply /\ (~call.options.backup \/ call.before.file = NoFile))
    => /\ fs.backup = call.before.backup
       /\ "backupPath" \notin DOMAIN call.result

\* after the call the backup holds what the target held before it, and the
\* result names it
BackupKept ==
    /\ fs.backup /= NoFile
    /\ fs.backup = call.before.file
    /\ "backupPath" \in DOMAIN call.result
    /\ call.result.backupPath = BackupPath(call.diff.filePath)

\* C12 as stated: every successful apply with a backup asked on a target that
\* exists leaves <target>.backup holding the content the target had before,
\* and returns its path; no backup is made when none was asked or the target
\* did not exist.
C12_Original ==
    /\ (IsApply /\ call.options.backup /\ call.before.file /= NoFile
          /\ call.result.success = TRUE)
       => BackupKept
    /\ NoBackupWithoutCause

\* C12 amended: the same, for an apply that is not a dry run of a diff that has
\* changes.
C12_BackupOnRealApply ==
    /\ (IsApply /\ call.options.backup /\ call.before.file /= NoFile
          /\ call.result.success = TRUE
          /\ ~call.options.dryRun /\ call.diff.hasChanges)
       => BackupKept
    /\ NoBackupWithoutCause

\* a successful apply with a backup over an existing file whose content changes
C12_Witness ==
    /\ IsApply
    /\ call.options = [backup |-> TRUE, dryRun |-> FALSE]
    /\ call.diff.hasChanges
    /\ call.before.file /= NoFile
    /\ call.result.success = TRUE
    /\ fs.file /= call.before.file
    /\ fs.backup = call.before.file

RECURSIVE InOrder(_, _, _, _, _)
\* the diffs applied one after the other from the disk: the result of each and
\* the disk it leaves, in order
InOrder(disk, diffs, options, ios, steps) ==
    IF diffs = <<>> THEN steps
    ELSE LET r == applyPatch(policyGate, policyConfig, disk, Head(diffs), options,
                             Head(ios))
         IN  InOrder(r.fs, Tail(diffs), options, Tail(ios), Append(steps, r))

\* C13: applyPatches returns the result of each attempted diff in the order of
\* the list; outside a dry run it stops at the first failure (every result but
\* the last is a success, the list is cut only after a failure, and the disk is
\* as the last attempted diff left it); in a dry run every diff is attempted.
C13_AppliedInOrder ==
    call.op = "applyPatches" =>
        LET steps == InOrder(call.before, call.diffs, call.options, call.ios, <<>>)
            n == Len(call.results)
        IN  /\ n >= 1
            /\ n <= Len(call.diffs)
            /\ \A i \in 1..n : call.results[i] = steps[i].result
            /\ fs = steps[n].fs
            /\ call.options.dryRun => n = Len(call.diffs)
            /\ ~call.options.dryRun =>
                 /\ \A i \in 1..(n - 1) : call.results[i].success = TRUE
                 /\ n < Len(call.diffs) => call.results[n].success = FALSE

\* a list of three diffs, not a dry run, cut at the failure of the second
C13_Witness ==
    /\ call.op = "applyPatches"
    /\ ~call.options.dryRun
    /\ Len(call.diffs) > Len(call.results)
    /\ Len(call.results) > 1
    /\ call.results[1].success = TRUE
    /\ call.results[Len(call.results)].success = FALSE
    /\ fs.file /= call.before.file

(***************************************************************************)
(* An exec call step by step.  execute hands the command to exec of        *)
(* child_process (promisified) with options timeout and maxBuffer;         *)
(* executeStream spawns the child itself, arms a timer and listens to the  *)
(* data, close and error events.  Output is counted in chunks: the child   *)
(* writes at most MaxOutput of them, options.maxBuffer is MaxBuffer.       *)
(* proc.kind is what the child does: it exits by itself, it runs until it  *)
(* is signalled, or it runs on and ignores SIGTERM.                        *)
(***************************************************************************)
ChildKinds == {"exits", "hangs", "ignores"}

\* exit codes are written as strings: the code of a close event is a number or
\* null, error.code may be the name of an error
ExitCodes == {"0", "1"}

\* the child as spawned, with the environment it is handed
Spawned(op, command, processEnv, env, kind) ==
    [ op |-> op, command |-> command, kind |-> kind,
      processEnv |-> processEnv, optEnv |-> env,
      env |-> scrubEnvironment(MergeEnv(processEnv, env)),
      child |-> "running", timer |-> "armed", signalled |-> FALSE,
      overflow |-> FALSE, written |-> 0, stdout |-> 0, stderr |-> 0,
      sink |-> 0, settled |-> FALSE, resolves |-> 0 ]

\* the return of execute and executeStream on a denial by the gate
ExecPolicyDenied(command, check) ==
    [ success |-> FALSE, stdout |-> 0, stderr |-> 0, exitCode |-> "-1",
      command |-> command, error |-> <<"Policy denied", check.reason>> ]

\* execute after execAsync: the promise resolved when the child closed with
\* code 0, unsignalled and within maxBuffer; else it rejected with an error
\* whose code is the exit code, null after a signal, or the name of the error
executeSettled(p, code) ==
    IF code = "0" /\ ~p.overflow
    THEN [ success |-> TRUE, stdout |-> p.stdout, stderr |-> p.stderr,
           exitCode |-> "0", command |-> p.command ]
    ELSE LET errorCode == IF p.overflow THEN "ERR_CHILD_PROCESS_STDIO_MAXBUFFER"
                          ELSE code
         IN  [ success |-> FALSE, stdout |-> p.stdout, stderr |-> p.stderr,
               exitCode |-> IF errorCode \in {"0", "null"} THEN "-1" ELSE errorCode,
               command |-> p.command,
               error |-> IF p.overflow THEN <<"stdout maxBuffer length exceeded">>
                         ELSE <<"Command failed">> ]

\* child.on('close') of executeStream
streamClosed(p, code) ==
    [ success |-> code = "0", stdout |-> p.stdout, stderr |-> p.stderr,
      exitCode |-> IF code \in {"0", "null"} THEN "-1" ELSE code,
      command |-> p.command ]

\* child.on('error') of executeStream, and the catch of execute on an error of
\* the spawn
spawnFailed(p) ==
    [ success |-> FALSE, stdout |-> p.stdout, stderr |-> p.stderr,
      exitCode |-> IF p.op = "execute" THEN "ENOENT" ELSE "-1",
      command |-> p.command, error |-> <<"spawn ENOENT">> ]

InitExec ==
    /\ policyConfig \in { c \in ToolPolicies : c.path_allowlist = {} }
    /\ tool = NoTool
    /\ context = NoContext
    /\ checkResult = NoResult
    /\ policyUpdated = FALSE
    /\ policyGate \in BOOLEAN
    /\ fs = [ dir |-> TRUE, file |-> NoFile, backup |-> NoFile ]
    /\ diff = NoDiff
    /\ auditLog = <<>>
    /\ spawned = {}
    /\ call = NoCall
    /\ proc = NoProc
    /\ db = NoDb
    /\ heap = NoHeap

\* execute / executeStream up to the spawn, or to the return on a denial
StartExec(op) ==
    /\ call = NoCall
    /\ proc = NoProc
    /\ \E command \in ToolCommands, processEnv \in ProcessEnvs, env \in OptEnvs,
          kind \in ChildKinds :
         LET check == checkTool(policyConfig, [risk_level |-> "exec"],
                                [command |-> command])
         IN  IF policyGate /\ ~check.allowed
             THEN /\ call' = [ op |-> op, command |-> command,
                               result |-> ExecPolicyDenied(command, check) ]
                  /\ UNCHANGED <<proc, spawned>>
             ELSE /\ proc' = Spawned(op, command, processEnv, env, kind)
                  /\ spawned' = {command}
                  /\ UNCHANGED call
    /\ UNCHANGED <<gateVars, db, heap, policyGate, fs, diff, auditLog>>

ExecuteCall == StartExec("execute")

ExecuteStreamCall == StartExec("executeStream")

\* the presets handed to executePreset: one that runs the tests, by name
Presets ==
    [ name \in { <<"t">> } |-> [ command |-> <<"n", " ", "t">>, env |-> NoEnv ] ]

PresetNames == { <<"t">>, <<"d">> }

\* the return of executePreset for a name that is not among the presets
PresetNotFound(presetName) ==
    [ success |-> FALSE, stdout |-> 0, stderr |-> 0, exitCode |-> "-1",
      command |-> presetName, error |-> <<"Preset not found", presetName>> ]

\* executePreset(presetName, presets): the return for an unknown name, or
\* execute(preset.command, {cwd, env}) up to the spawn or the denial
ExecutePresetCall ==
    /\ call = NoCall
    /\ proc = NoProc
    /\ \E presetName \in PresetNames, processEnv \in ProcessEnvs, kind \in ChildKinds :
         IF presetName \notin DOMAIN Presets
         THEN /\ call' = [ op |-> "executePreset", command |-> presetName,
                           result |-> PresetNotFound(presetName) ]
              /\ UNCHANGED <<proc, spawned>>
         ELSE LET preset == Presets[presetName]
                  check == checkTool(policyConfig, [risk_level |-> "exec"],
                                     [command |-> preset.command])
              IN  IF policyGate /\ ~check.allowed
                  THEN /\ call' = [ op |-> "execute", command |-> preset.command,
                                    result |-> ExecPolicyDenied(preset.command, check) ]
                       /\ UNCHANGED <<proc, spawned>>
                  ELSE /\ proc' = Spawned("execute", preset.command, processEnv,
                                          preset.env, kind)
                       /\ spawned' = {preset.command}
                       /\ UNCHANGED call
    /\ UNCHANGED <<gateVars, db, heap, policyGate, fs, diff, auditLog>>

\* the promise of the call settles with result, unless it has settled already;
\* the handlers clear the timer
Settle(p, result) ==
    /\ proc' = [p EXCEPT !.settled = TRUE, !.resolves = p.resolves + 1,
                         !.timer = IF p.timer = "armed" THEN "cleared" ELSE p.timer]
    /\ call' = IF p.settled THEN call
               ELSE [ op |-> p.op, command |-> p.command, result |-> result ]

\* the child writes a chunk to stdout or stderr.  executeStream appends it and
\* hands it to the sink; exec appends it unless that exceeds maxBuffer, and
\* then kills the child and keeps what it has.
ChildWrites ==
    /\ proc /= NoProc
    /\ proc.child = "running"
    /\ proc.written < MaxOutput
    /\ \E stream \in {"stdout", "stderr"} :
         LET p == [proc EXCEPT !.written = @ + 1]
         IN  IF proc.op = "executeStream"
             THEN proc' = [p EXCEPT ![stream] = @ + 1, !.sink = @ + 1]
             ELSE IF proc.overflow THEN proc' = p
             ELSE IF proc[stream] + 1 > MaxBuffer
             THEN proc' = [p EXCEPT !.overflow = TRUE, !.signalled = TRUE]
             ELSE proc' = [p EXCEPT ![stream] = @ + 1]
    /\ UNCHANGED <<gateVars, db, heap, policyGate, fs, diff, auditLog, spawned, call>>

\* the timeout expires: the child is sent SIGTERM
TimeoutFires ==
    /\ proc /= NoProc
    /\ proc.timer = "armed"
    /\ proc.child = "running"
    /\ proc' = [proc EXCEPT !.timer = "fired", !.signalled = TRUE]
    /\ UNCHANGED <<gateVars, db, heap, policyGate, fs, diff, auditLog, spawned, call>>

\* the child ends and its pipes close: by itself with an exit code, or by the
\* signal (code null) unless it ignores the signal
ChildCloses ==
    /\ proc /= NoProc
    /\ proc.child = "running"
    /\ \E code \in ExitCodes \cup {"null"} :
         /\ IF proc.signalled /\ proc.kind /= "ignores"
            THEN code = "null"
            ELSE code \in ExitCodes /\ proc.kind = "exits"
         /\ Settle([proc EXCEPT !.child = "exited"],
                   IF proc.op = "execute" THEN executeSettled(proc, code)
                   ELSE streamClosed(proc, code))
    /\ UNCHANGED <<gateVars, db, heap, policyGate, fs, diff, auditLog, spawned>>

\* the spawn fails: the error event
SpawnError ==
    /\ proc /= NoProc
    /\ proc.child = "running"
    /\ proc.written = 0
    /\ ~proc.signalled
    /\ Settle([proc EXCEPT !.child = "failed"], spawnFailed(proc))
    /\ UNCHANGED <<gateVars, db, heap, policyGate, fs, diff, auditLog, spawned>>

\* the close event after the error event: executeStream resolves once more
CloseAfterError ==
    /\ proc /= NoProc
    /\ proc.child = "failed"
    /\ proc.op = "executeStream"
    /\ Settle([proc EXCEPT !.child = "exited"], streamClosed(proc, "null"))
    /\ UNCHANGED <<gateVars, db, heap, policyGate, fs, diff, auditLog, spawned>>

\* the caller takes the result of the call
TakeResult ==
    /\ call /= NoCall
    /\ call' = NoCall
    /\ proc' = NoProc
    /\ spawned' = {}
    /\ UNCHANGED <<gateVars, db, heap, policyGate, fs, diff, auditLog>>

NextExec ==
    \/ ExecuteCall
    \/ ExecuteStreamCall
    \/ ExecutePresetCall
    \/ ChildWrites
    \/ TimeoutFires
    \/ ChildCloses
    \/ SpawnError
    \/ CloseAfterError
    \/ TakeResult

SpecExec == InitExec /\ [][NextExec]_vars

\* timers expire and the events of a child that has ended are delivered
SpecExecLive ==
    /\ SpecExec
    /\ WF_vars(TimeoutFires)
    /\ WF_vars(ChildCloses)
    /\ WF_vars(CloseAfterError)

(***************************************************************************)
(* Properties of an exec call, stated on the child in flight and on the    *)
(* result returned.                                                        *)
(***************************************************************************)
\* the names the safety allowlist is documented to hold
SafeNames ==
    { <<"P", "A", "T", "H">>, <<"H", "O", "M", "E">>,
      <<"U", "S", "E", "R">>, <<"S", "H", "E", "L", "L">>,
      <<"L", "A", "N", "G">>, <<"P", "W", "D">> }

\* the entries of the allowlist that belong to a tool
ToolPrefixes == EnvAllowlist \ SafeNames

Sensitive(key) == \E marker \in SensitiveMarkers : IncludesStr(key, marker)

\* C14 as stated: the environment handed to the child holds no variable with a
\* sensitive name, unless the name is one of the safe names or starts with a
\* tool prefix; every other variable of the parent and of the caller is passed
\* on, with the value of the caller when both give one.
C14_ChildEnvScrubbed ==
    proc /= NoProc =>
        /\ \A key \in DOMAIN proc.env :
              Sensitive(key) =>
                 \/ key \in SafeNames
                 \/ \E prefix \in ToolPrefixes : StartsWith(key, prefix)
        /\ \A key \in DOMAIN proc.processEnv \cup DOMAIN proc.optEnv :
              ~Sensitive(key) =>
                 /\ key \in DOMAIN proc.env
                 /\ proc.env[key] = IF key \in DOMAIN proc.optEnv
                                    THEN proc.optEnv[key]
                                    ELSE proc.processEnv[key]

\* the call has returned a result for a child that was spawned
ExecReturned == call /= NoCall /\ proc /= NoProc

\* C15 as stated: when the timeout of a command expires, the child is ended and
\* the result returned, by execute and by executeStream, is a failure with an
\* error.
C15_TimeoutReportsFailure ==
    (ExecReturned /\ proc.timer = "fired")
    => /\ proc.child = "exited"
       /\ call.result.success = FALSE
       /\ "error" \in DOMAIN call.result
       /\ call.result.error /= <<>>

\* C16 as stated: every call that spawned a child returns its result, whatever
\* the child does.
C16_CallerNeverLeftHanging ==
    (proc /= NoProc) ~> (call /= NoCall)

\* C17 as stated: the stdout and the stderr of every result returned are each
\* within maxBuffer.
C17_OutputBounded ==
    call /= NoCall =>
        /\ call.result.stdout <= MaxBuffer
        /\ call.result.stderr <= MaxBuffer

(***************************************************************************)
(* AuditLogger (security/audit-logger.ts).  The log file is the sequence   *)
(* of its lines; a line is written here as the object its JSON text parses *)
(* back to, in which a key whose value is undefined is absent.  An         *)
(* optional argument is [defined |-> FALSE] or [defined |-> TRUE, value].  *)
(***************************************************************************)
Undefined == [ defined |-> FALSE ]

Defined(value) == [ defined |-> TRUE, value |-> value ]

\* the object with key set to the argument, when the argument is given
WithKey(object, key, argument) ==
    IF argument.defined THEN (key :> argument.value) @@ object ELSE object

\* { ...metadata }
Spread(argument) == IF argument.defined THEN argument.value ELSE [ k \in {} |-> "" ]

\* a slip: the file written instead of appended to
log_Overwrites(file, entry, now, io) ==
    LET fullEntry == ("timestamp" :> now) @@ entry
    IN  IF io = "ok"
        THEN [ auditLog |-> <<fullEntry>>, threw |-> FALSE ]
        ELSE [ auditLog |-> file, threw |-> FALSE ]

\* a slip: the error of the append thrown on
log_Rethrows(file, entry, now, io) ==
    LET fullEntry == ("timestamp" :> now) @@ entry
    IN  IF io = "ok"
        THEN [ auditLog |-> Append(file, fullEntry), threw |-> FALSE ]
        ELSE [ auditLog |-> file, threw |-> TRUE ]

\* log(entry) at the time now, with the outcome io of appendFileSync: the file
\* it leaves and whether it threw
log(file, entry, now, io) ==
    LET fullEntry == ("timestamp" :> now) @@ entry
    IN  IF io = "ok"
        THEN [ auditLog |-> Append(file, fullEntry), threw |-> FALSE ]
        ELSE [ auditLog |-> file, threw |-> FALSE ]

logTool(file, toolName, status, metadata, now, io) ==
    log(file,
        WithKey([ action |-> <<"tool:", toolName>>, status |-> status ],
                "metadata", metadata),
        now, io)

logConfirmation(file, action, confirmed, metadata, now, io) ==
    log(file,
        WithKey([ action |-> <<"confirm:", action>>,
                  status |-> IF confirmed THEN "success" ELSE "denied",
                  user_confirmed |-> confirmed ],
                "metadata", metadata),
        now, io)

logFileWrite(file, filePath, status, diffHash, metadata, now, io) ==
    log(file,
        [ action |-> <<"file:write">>, status |-> status,
          metadata |-> WithKey(("file" :> filePath) @@ Spread(metadata),
                               "diff_hash", diffHash) ],
        now, io)

logExec(file, command, status, exitCode, metadata, now, io) ==
    log(file,
        [ action |-> <<"exec:command">>, status |-> status,
          metadata |-> WithKey(("command" :> command) @@ Spread(metadata),
                               "exit_code", exitCode) ],
        now, io)

logPolicyViolation(file, action, reason, metadata, now, io) ==
    log(file,
        [ action |-> <<"policy:violation:", action>>, status |-> "denied",
          metadata |-> ("reason" :> reason) @@ Spread(metadata) ],
        now, io)

logAgent(file, action, status, metadata, now, io) ==
    log(file,
        WithKey([ action |-> <<"agent:", action>>, status |-> status ],
                "metadata", metadata),
        now, io)

\* new Date().toISOString(): two instants
Timestamps == {"2025-01-01T23:59:59.000Z", "2025-01-02T00:00:00.000Z"}

AppendOutcomes == {"ok", "appendFails"}

Metadatas == { Undefined, Defined([ key |-> "value" ]) }

InitAudit ==
    /\ policyConfig \in { c \in ToolPolicies : c.path_allowlist = {} }
    /\ tool = NoTool
    /\ context = NoContext
    /\ checkResult = NoResult
    /\ policyUpdated = FALSE
    /\ InitTools

\* the record call that just returned: what the file held before it, and how
\* many record calls have appended so far
Recorded(op, r, io) ==
    /\ Len(auditLog) < MaxRecords
    /\ auditLog' = r.auditLog
    /\ call' = [ op |-> op, io |-> io, threw |-> r.threw, before |-> auditLog,
                 records |-> (IF call = NoCall THEN 0 ELSE call.records)
                             + (IF io = "ok" THEN 1 ELSE 0) ]
    /\ UNCHANGED <<gateVars, db, heap, policyGate, fs, diff, spawned, proc>>

Log ==
    \E now \in Timestamps, io \in AppendOutcomes, status \in {"success", "failure"} :
        Recorded("log",
                 log(auditLog, [ action |-> <<"test:action">>, status |-> status ],
                     now, io),
                 io)

LogTool ==
    \E now \in Timestamps, io \in AppendOutcomes, metadata \in Metadatas :
        Recorded("logTool",
                 logTool(auditLog, "readFile", "denied", metadata, now, io), io)

LogConfirmation ==
    \E now \in Timestamps, io \in AppendOutcomes, confirmed \in BOOLEAN :
        Recorded("logConfirmation",
                 logConfirmation(auditLog, "apply", confirmed, Undefined, now, io),
                 io)

LogFileWrite ==
    \E now \in Timestamps, io \in AppendOutcomes,
       diffHash \in {Undefined, Defined("sha256")} :
        Recorded("logFileWrite",
                 logFileWrite(auditLog, TargetPath, "success", diffHash, Undefined,
                              now, io),
                 io)

LogExec ==
    \E now \in Timestamps, io \in AppendOutcomes,
       exitCode \in {Undefined, Defined(1)} :
        Recorded("logExec",
                 logExec(auditLog, <<"n", " ", "t">>, "failure", exitCode, Undefined,
                         now, io),
                 io)

LogPolicyViolation ==
    \E now \in Timestamps, io \in AppendOutcomes :
        Recorded("logPolicyViolation",
                 logPolicyViolation(auditLog, "exec", "not in exec allowlist",
                                    Undefined, now, io),
                 io)

LogAgent ==
    \E now \in Timestamps, io \in AppendOutcomes :
        Recorded("logAgent",
                 logAgent(auditLog, "plan", "success", Undefined, now, io), io)

NextAudit ==
    \/ Log
    \/ LogTool
    \/ LogConfirmation
    \/ LogFileWrite
    \/ LogExec
    \/ LogPolicyViolation
    \/ LogAgent

SpecAudit == InitAudit /\ [][NextAudit]_vars

\* C18: the log is append-only: a record call whose append succeeds adds one
\* line, carrying a timestamp, after the lines the file held, which stay as
\* they were and in order; after n such calls the file holds n lines.
C18_AppendOnly ==
    /\ Len(auditLog) = (IF call = NoCall THEN 0 ELSE call.records)
    /\ \A i \in 1..Len(auditLog) : "timestamp" \in DOMAIN auditLog[i]
    /\ (call /= NoCall /\ call.io = "ok")
       => /\ Len(auditLog) = Len(call.before) + 1
          /\ SubSeq(auditLog, 1, Len(call.before)) = call.before

\* a second line appended, by another record call than the first
C18_Witness ==
    /\ call /= NoCall
    /\ call.io = "ok"
    /\ call.op = "logExec"
    /\ Len(call.before) = 1
    /\ Len(auditLog) = 2
    /\ auditLog[1].action = <<"policy:violation:", "exec">>
    /\ auditLog[2].timestamp /= auditLog[1].timestamp

\* C19: a record call whose append fails returns normally and leaves the log
\* as it was.
C19_AppendFailureSwallowed ==
    (call /= NoCall /\ call.io = "appendFails")
    => /\ call.threw = FALSE
       /\ auditLog = call.before

\* an append that fails on a log that already holds a line
C19_Witness ==
    /\ call /= NoCall
    /\ call.io = "appendFails"
    /\ call.before /= <<>>
    /\ call.threw = FALSE
    /\ auditLog = call.before

(***************************************************************************)
(* SecretScanner (security/secret-scanner.ts).  A text is a sequence of    *)
(* characters, "\n" among them.  A regular expression is a sequence of     *)
(* items, matched from a position of a line with the priorities of a       *)
(* backtracking matcher: a repetition takes as many characters as the rest *)
(* of the expression allows, alternatives are tried in order, an optional  *)
(* group is tried before its absence.                                      *)
(***************************************************************************)
AlphabetUpper ==
    << "A", "B", "C", "D", "E", "F", "G", "H", "I", "J", "K", "L", "M",
       "N", "O", "P", "Q", "R", "S", "T", "U", "V", "W", "X", "Y", "Z" >>

AlphabetLower ==
    << "a", "b", "c", "d", "e", "f", "g", "h", "i", "j", "k", "l", "m",
       "n", "o", "p", "q", "r", "s", "t", "u", "v", "w", "x", "y", "z" >>

\* String.prototype.toLowerCase, character by character
ToLower(s) ==
    [ i \in 1..Len(s) |->
        IF \E j \in 1..Len(AlphabetUpper) : AlphabetUpper[j] = s[i]
        THEN AlphabetLower[CHOOSE j \in 1..Len(AlphabetUpper) : AlphabetUpper[j] = s[i]]
        ELSE s[i] ]

\* String.prototype.toUpperCase, character by character
ToUpper(s) ==
    [ i \in 1..Len(s) |->
        IF \E j \in 1..Len(AlphabetLower) : AlphabetLower[j] = s[i]
        THEN AlphabetUpper[CHOOSE j \in 1..Len(AlphabetLower) : AlphabetLower[j] = s[i]]
        ELSE s[i] ]

UpperCase == { AlphabetUpper[j] : j \in 1..Len(AlphabetUpper) }

LowerCase == { AlphabetLower[j] : j \in 1..Len(AlphabetLower) }

Digits == { "0", "1", "2", "3", "4", "5", "6", "7", "8", "9" }

\* a character matches a class when it is one of its characters, or, for a
\* negated class, none of them
InClass(ch, class) == (ch \in class.chars) /= class.neg

\* \w at a position of the line; positions outside the line hold no character
IsWordAt(line, pos) ==
    /\ pos \in 1..Len(line)
    /\ line[pos] \in UpperCase \cup LowerCase \cup Digits \cup {"_"}

\* the word at the position of the line, without regard to case under flag i
WordAt(line, pos, word, ci) ==
    /\ pos + Len(word) - 1 <= Len(line)
    /\ LET found == SubSeq(line, pos, pos + Len(word) - 1)
       IN  IF ci THEN ToLower(found) = ToLower(word) ELSE found = word

RECURSIVE MatchFrom(_, _, _, _)
\* the position after the match of the items at pos, 0 when there is none
MatchFrom(line, pos, items, ci) ==
    IF items = <<>> THEN pos
    ELSE
    LET item == Head(items)
        rest == Tail(items)
    IN  CASE item.k = "b" ->
               IF IsWordAt(line, pos - 1) /= IsWordAt(line, pos)
               THEN MatchFrom(line, pos, rest, ci)
               ELSE 0
          [] item.k = "alt" ->
               LET found == { j \in 1..Len(item.words) :
                                WordAt(line, pos, item.words[j], ci) }
                   end == [ j \in found |->
                              MatchFrom(line, pos + Len(item.words[j]), rest, ci) ]
                   ok == { j \in found : end[j] /= 0 }
               IN  IF ok = {} THEN 0
                   ELSE end[CHOOSE j \in ok : \A other \in ok : j <= other]
          [] item.k = "opt" ->
               LET taken == MatchFrom(line, pos, item.items \o rest, ci)
               IN  IF taken /= 0 THEN taken ELSE MatchFrom(line, pos, rest, ci)
          [] item.k = "rep" ->
               LET room == IF item.bounded /\ item.max < Len(line) - pos + 1
                           THEN item.max ELSE Len(line) - pos + 1
                   fits == { n \in 0..room :
                               \A i \in 0..(n - 1) : InClass(line[pos + i], item.class) }
                   end == [ n \in { n \in fits : n >= item.min } |->
                              MatchFrom(line, pos + n, rest, ci) ]
                   ok == { n \in DOMAIN end : end[n] /= 0 }
               IN  IF ok = {} THEN 0
                   ELSE end[CHOOSE n \in ok : \A other \in ok : n >= other]

\* this.patterns, in order
patterns ==
    LET Class(chars) == [ neg |-> FALSE, chars |-> chars ]
        NotClass(chars) == [ neg |-> TRUE, chars |-> chars ]
        \* class{min,} and class{min,max}
        AtLeast(class, min) ==
            [ k |-> "rep", class |-> class, min |-> min, bounded |-> FALSE, max |-> 0 ]
        Times(class, min, max) ==
            [ k |-> "rep", class |-> class, min |-> min, bounded |-> TRUE, max |-> max ]
        \* \b, (word|word|...), (items)?
        WordBoundary == [ k |-> "b" ]
        Words(words) == [ k |-> "alt", words |-> words ]
        Optional(items) == [ k |-> "opt", items |-> items ]
        letters == UpperCase \cup LowerCase
        alnum == letters \cup Digits
        space == Class({" ", "\t", "\r"})
        sep == Class({" ", "\t", "\r", ":", "="})
        quote == Class({"'", "\""})
        value == NotClass({"'", "\"", " ", "\t", "\r"})
        digit == Class(Digits)
        dash == Class({" ", "\t", "\r", "-"})
        \* \b(name|name|name)[\s:=]+['"]?(class+)['"]?
        assigned(names, class) ==
            << WordBoundary, Words(names), AtLeast(sep, 1), Times(quote, 0, 1),
               AtLeast(class, 1), Times(quote, 0, 1) >>
        api_key == <<"a", "p", "i", "_", "k", "e", "y">>
        aws_access_key ==
            <<"a", "w", "s", "_", "a", "c", "c", "e", "s", "s", "_", "k", "e", "y">>
        aws_secret_key ==
            <<"a", "w", "s", "_", "s", "e", "c", "r", "e", "t", "_", "k", "e", "y">>
        private_key == <<"p", "r", "i", "v", "a", "t", "e", "_", "k", "e", "y">>
        token == <<"t", "o", "k", "e", "n">>
        auth == <<"a", "u", "t", "h">>
        bearer == <<"b", "e", "a", "r", "e", "r">>
        password == <<"p", "a", "s", "s", "w", "o", "r", "d">>
        passwd == <<"p", "a", "s", "s", "w", "d">>
        pwd == <<"p", "w", "d">>
        github_token ==
            <<"g", "i", "t", "h", "u", "b", "_", "t", "o", "k", "e", "n">>
        secret == <<"s", "e", "c", "r", "e", "t">>
        apikey == <<"a", "p", "i", "k", "e", "y">>
        email == <<"e", "m", "a", "i", "l">>
        credit_card == <<"c", "r", "e", "d", "i", "t", "_", "c", "a", "r", "d">>
        AKIA == <<"A", "K", "I", "A">>
        BEGIN == <<"-", "-", "-", "-", "-", "B", "E", "G", "I", "N">>
        RSA == <<"R", "S", "A">>
        PRIVATE_KEY ==
            <<"P", "R", "I", "V", "A", "T", "E", " ", "K", "E", "Y", "-", "-", "-", "-", "-">>
    IN  << [ type |-> api_key, description |-> "Possible API key", ci |-> FALSE,
             items |-> << WordBoundary, AtLeast(Class(alnum \cup {"_", "-"}), 32),
                          WordBoundary >> ],
           [ type |-> aws_access_key, description |-> "AWS Access Key", ci |-> FALSE,
             items |-> << Words(<< AKIA >>),
                          Times(Class(Digits \cup UpperCase), 16, 16) >> ],
           [ type |-> aws_secret_key, description |-> "AWS Secret Key", ci |-> FALSE,
             items |-> << Times(Class(alnum \cup {"/", "+", "="}), 40, 40) >> ],
           [ type |-> private_key, description |-> "Private Key", ci |-> FALSE,
             items |-> << Words(<< BEGIN >>), AtLeast(space, 1),
                          Optional(<< Words(<< RSA >>), AtLeast(space, 1) >>),
                          Words(<< PRIVATE_KEY >>) >> ],
           [ type |-> token, description |-> "Authentication Token", ci |-> TRUE,
             items |-> assigned(<< token, auth, bearer >>,
                                Class(alnum \cup {"_", "-", "."})) ],
           [ type |-> password, description |-> "Password", ci |-> TRUE,
             items |-> assigned(<< password, passwd, pwd >>, value) ],
           [ type |-> github_token, description |-> "GitHub Token", ci |-> FALSE,
             items |-> << WordBoundary, Words(<< <<"g", "h">> >>),
                          Times(Class({"p", "o", "u", "s", "r"}), 1, 1),
                          Words(<< <<"_">> >>), AtLeast(Class(alnum \cup {"_"}), 36),
                          WordBoundary >> ],
           [ type |-> secret, description |-> "Secret", ci |-> TRUE,
             items |-> assigned(<< secret, apikey, api_key >>, value) ],
           [ type |-> email, description |-> "Email address (PII)", ci |-> FALSE,
             items |-> << WordBoundary,
                          AtLeast(Class(alnum \cup {".", "_", "%", "+", "-"}), 1),
                          Words(<< <<"@">> >>),
                          AtLeast(Class(alnum \cup {".", "-"}), 1),
                          Words(<< <<".">> >>),
                          AtLeast(Class(letters \cup {"|"}), 2),
                          WordBoundary >> ],
           [ type |-> credit_card, description |-> "Credit Card number", ci |-> FALSE,
             items |-> << WordBoundary, Times(digit, 4, 4), Times(dash, 0, 1),
                          Times(digit, 4, 4), Times(dash, 0, 1), Times(digit, 4, 4),
                          Times(dash, 0, 1), Times(digit, 4, 4), WordBoundary >> ] >>

\* isFalsePositive(value, type)
isFalsePositive(value, type) ==
    LET falsePositives ==
            { <<"e", "x", "a", "m", "p", "l", "e", ".", "c", "o", "m">>,
              <<"t", "e", "s", "t", "@", "t", "e", "s", "t", ".", "c", "o", "m">>,
              <<"u", "s", "e", "r", "@", "e", "x", "a", "m", "p", "l", "e", ".", "c", "o", "m">>,
              <<"1", "2", "3", "4", "5", "6", "7", "8", "9", "0", "1", "2", "3", "4", "5", "6">>,
              <<"p", "a", "s", "s", "w", "o", "r", "d", "1", "2", "3">>,
              <<"y", "o", "u", "r", "_", "a", "p", "i", "_", "k", "e", "y", "_", "h", "e", "r", "e">>,
              <<"Y", "O", "U", "R", "_", "S", "E", "C", "R", "E", "T", "_", "H", "E", "R", "E">> }
        placeholders ==
            { <<"e", "x", "a", "m", "p", "l", "e">>,
              <<"p", "l", "a", "c", "e", "h", "o", "l", "d", "e", "r">>,
              <<"y", "o", "u", "r", "_">>,
              <<"x", "x", "x">> }
        lower == ToLower(value)
    IN  \/ \E fp \in falsePositives : IncludesStr(lower, ToLower(fp))
        \/ \E word \in placeholders : IncludesStr(lower, word)
        \/ type = <<"a", "p", "i", "_", "k", "e", "y">> /\ Len(value) < 20

RECURSIVE ExecAll(_, _, _, _, _)
\* the while loop of scan over one line and one pattern: pattern.exec finds
\* the leftmost match at or after lastIndex and moves lastIndex to its end
ExecAll(line, lineIndex, patternDef, lastIndex, matches) ==
    LET ends == [ s \in (lastIndex + 1)..(Len(line) + 1) |->
                    MatchFrom(line, s, patternDef.items, patternDef.ci) ]
        starts == { s \in DOMAIN ends : ends[s] /= 0 }
    IN  IF starts = {} THEN matches
        ELSE
        LET s == CHOOSE s \in starts : \A other \in starts : s <= other
            end == ends[s]
            value == SubSeq(line, s, end - 1)
            match == [ type |-> patternDef.type,
                       value |-> value,
                       line |-> lineIndex + 1,
                       column |-> s - 1,
                       pattern |-> patternDef.description ]
        IN  ExecAll(line, lineIndex, patternDef, end - 1,
                    IF isFalsePositive(value, patternDef.type)
                    THEN matches
                    ELSE Append(matches, match))

\* scan(text)
scan(text) ==
    LET lines == SplitOn(text, "\n", <<>>)
        RECURSIVE forEach(_, _)
        \* the two nested forEach loops, line by line and pattern by pattern
        forEach(k, matches) ==
            IF k >= Len(lines) * Len(patterns) THEN matches
            ELSE LET lineIndex == k \div Len(patterns)
                     patternDef == patterns[(k % Len(patterns)) + 1]
                 IN  forEach(k + 1,
                             ExecAll(lines[lineIndex + 1], lineIndex, patternDef, 0,
                                     matches))
        matches == forEach(0, <<>>)
    IN  [ hasSecrets |-> Len(matches) > 0, matches |-> matches ]

\* String.prototype.substring(start) and substring(0, end): indices beyond
\* the line are taken as its length
SubstringFrom(line, start) ==
    SubSeq(line, (IF start > Len(line) THEN Len(line) ELSE start) + 1, Len(line))

SubstringTo(line, end) ==
    SubSeq(line, 1, IF end > Len(line) THEN Len(line) ELSE end)

RECURSIVE Join(_, _)
\* Array.prototype.join
Join(lines, sep) ==
    IF lines = <<>> THEN <<>>
    ELSE IF Len(lines) = 1 THEN lines[1]
    ELSE lines[1] \o <<sep>> \o Join(Tail(lines), sep)

\* [...result.matches].sort(...): by line and then by column, both descending;
\* the sort is stable, so matches at one place keep the order of the scan
SortedMatches(matches) ==
    LET before(i, j) ==
            \/ matches[i].line > matches[j].line
            \/ matches[i].line = matches[j].line /\ matches[i].column > matches[j].column
            \/ /\ matches[i].line = matches[j].line
               /\ matches[i].column = matches[j].column
               /\ i < j
        rank(i) == Cardinality({ j \in DOMAIN matches : before(j, i) }) + 1
    IN  [ r \in DOMAIN matches |-> matches[CHOOSE i \in DOMAIN matches : rank(i) = r] ]

RECURSIVE Redacted(_, _)
\* sortedMatches.forEach of redact: the lines after each match in turn has
\* been replaced in its line
Redacted(lines, sortedMatches) ==
    IF sortedMatches = <<>> THEN lines
    ELSE LET match == Head(sortedMatches)
             line == lines[match.line]
             before == SubstringTo(line, match.column)
             after == SubstringFrom(line, match.column + Len(match.value))
             redacted == <<"[", "R", "E", "D", "A", "C", "T", "E", "D", "_">>
                           \o ToUpper(match.type) \o <<"]">>
         IN  Redacted([ lines EXCEPT ![match.line] = before \o redacted \o after ],
                      Tail(sortedMatches))

\* redact with a line break after the last line
redact_TrailingNewline(text) ==
    LET result == scan(text)
    IN  [ hasSecrets |-> result.hasSecrets,
          matches |-> result.matches,
          redactedText |->
              IF result.hasSecrets
              THEN Join(Redacted(SplitOn(text, "\n", <<>>), SortedMatches(result.matches)),
                        "\n") \o <<"\n">>
              ELSE text ]

\* redact(text)
redact(text) ==
    LET result == scan(text)
    IN  [ hasSecrets |-> result.hasSecrets,
          matches |-> result.matches,
          redactedText |->
              IF result.hasSecrets
              THEN Join(Redacted(SplitOn(text, "\n", <<>>), SortedMatches(result.matches)),
                        "\n")
              ELSE text ]

(***************************************************************************)
(* The scanner on texts of up to MaxTextLines lines, each drawn from a     *)
(* pool of lines: lines without a secret, with one, with two side by side, *)
(* with one inside another (up to its end, ending before it, longer than   *)
(* its token), with a placeholder the scanner skips, and with a line break *)
(* of two characters.                                                      *)
(***************************************************************************)
LinePool ==
    { <<>>,
      <<"o", "k", "\r">>,
      <<"P", "w", "d", ":", " ", "'", "x", "'", ";">>,
      <<"p", "w", "d", "=", "s", "e", "c", "r", "e", "t", "=", "k">>,
      <<"t", "o", "k", "e", "n", "=", "t", " ", "p", "w", "d", "=", "p">>,
      <<"p", "w", "d", "=", "e", "x", "a", "m", "p", "l", "e">>,
      <<"p", "w", "d", "=", "a", "@", "b", ".", "i", "o", ",", "x">>,
      <<"p", "w", "d", "=", "a", "@", "b", "c", "d", "e", "f", "g", "h", "i",
        "j", "k", "l", "m", ".", "i", "o", " ", "z">> }

Texts ==
    { Join(lines, "\n") : lines \in SeqsUpTo(LinePool, MaxTextLines) \ {<<>>} }

InitScan == InitAudit

Scan ==
    /\ call = NoCall
    /\ \E text \in Texts :
         call' = [ op |-> "scan", text |-> text, result |-> scan(text) ]
    /\ UNCHANGED <<gateVars, db, heap, policyGate, fs, diff, auditLog, spawned, proc>>

Redact ==
    /\ call = NoCall
    /\ \E text \in Texts :
         call' = [ op |-> "redact", text |-> text, result |-> redact(text) ]
    /\ UNCHANGED <<gateVars, db, heap, policyGate, fs, diff, auditLog, spawned, proc>>

ScanReturn ==
    /\ call /= NoCall
    /\ call' = NoCall
    /\ UNCHANGED <<gateVars, db, heap, policyGate, fs, diff, auditLog, spawned, proc>>

NextScan == Scan \/ Redact \/ ScanReturn

SpecScan == InitScan /\ [][NextScan]_vars

\* the lines of a text, as scan and redact split it
LinesOf(text) == SplitOn(text, "\n", <<>>)

\* C20: redact never changes the number of lines: the redacted text of every
\* input has as many lines as the input, and it is the input itself when scan
\* finds no match in it.
C20_LineCountKept ==
    call.op = "redact" =>
        /\ Len(LinesOf(call.result.redactedText)) = Len(LinesOf(call.text))
        /\ scan(call.text).matches = <<>> => call.result.redactedText = call.text

\* a redact of a text of several lines that replaced a match on a line other
\* than the first
C20_Witness ==
    /\ call.op = "redact"
    /\ Len(LinesOf(call.text)) > 1
    /\ \E i \in DOMAIN call.result.matches : call.result.matches[i].line > 1
    /\ call.result.redactedText /= call.text

\* a redact of a text in which scan finds nothing
C20_WitnessNoMatch ==
    /\ call.op = "redact"
    /\ Len(LinesOf(call.text)) > 1
    /\ call.result.matches = <<>>
    /\ call.result.redactedText = call.text

(***************************************************************************)
(* Where the characters of a redacted text come from.  redact only cuts    *)
(* lines at columns and concatenates the pieces, so the same cuts made on  *)
(* the columns 1..Len(line) of each line, with 0 for every character of a  *)
(* token, give for every character of the result the column of the input   *)
(* it is, or 0.                                                            *)
(***************************************************************************)
RECURSIVE RedactedOrigins(_, _)
RedactedOrigins(origins, sortedMatches) ==
    IF sortedMatches = <<>> THEN origins
    ELSE LET match == Head(sortedMatches)
             line == origins[match.line]
             before == SubstringTo(line, match.column)
             after == SubstringFrom(line, match.column + Len(match.value))
             redacted == [ i \in 1..(Len(match.type) + 11) |-> 0 ]
         IN  RedactedOrigins(
                 [ origins EXCEPT ![match.line] = before \o redacted \o after ],
                 Tail(sortedMatches))

\* the origins of the characters of redact(text).redactedText, line by line
Origins(text, matches) ==
    LET lines == LinesOf(text)
    IN  RedactedOrigins([ l \in DOMAIN lines |-> [ c \in 1..Len(lines[l]) |-> c ] ],
                        SortedMatches(matches))

\* the origins describe the redacted text: as many lines, of the same lengths,
\* and every character with an origin is the character of the input there
OriginsAgree ==
    call.op = "redact" /\ call.result.hasSecrets =>
        LET lines == LinesOf(call.text)
            redactedLines == LinesOf(call.result.redactedText)
            origins == Origins(call.text, call.result.matches)
        IN  /\ Len(origins) = Len(redactedLines)
            /\ \A l \in DOMAIN origins :
                 /\ Len(origins[l]) = Len(redactedLines[l])
                 /\ \A j \in DOMAIN origins[l] :
                      origins[l][j] /= 0 => redactedLines[l][j] = lines[l][origins[l][j]]

\* the columns of the line (from 1) that the match covers
Span(match) == (match.column + 1)..(match.column + Len(match.value))

\* C21 as stated: no character of the span of a match that scan retains is a
\* character of the redacted text, whether or not matches of one line overlap
\* or lie inside one another.
C21_NoMatchSurvives ==
    call.op = "redact" =>
        LET origins == Origins(call.text, call.result.matches)
        IN  \A i \in DOMAIN call.result.matches :
              LET match == call.result.matches[i]
              IN  \A j \in DOMAIN origins[match.line] :
                    origins[match.line][j] \notin Span(match)

\* two matches of the text share a column
Overlapping(matches) ==
    \E i, j \in DOMAIN matches :
        /\ i /= j
        /\ matches[i].line = matches[j].line
        /\ Span(matches[i]) \cap Span(matches[j]) /= {}

\* the part of C21 that the code keeps: when no two matches overlap, no
\* character of a match is left in the redacted text
C21_DisjointMatchesRemoved ==
    call.op = "redact" /\ ~Overlapping(call.result.matches) =>
        LET origins == Origins(call.text, call.result.matches)
        IN  \A i \in DOMAIN call.result.matches :
              LET match == call.result.matches[i]
              IN  \A j \in DOMAIN origins[match.line] :
                    origins[match.line][j] \notin Span(match)

\* a redact of two matches side by side on one line
C21_DisjointWitness ==
    /\ call.op = "redact"
    /\ ~Overlapping(call.result.matches)
    /\ \E i, j \in DOMAIN call.result.matches :
         i /= j /\ call.result.matches[i].line = call.result.matches[j].line

\* the token that stands for a match
Token(match) ==
    <<"[", "R", "E", "D", "A", "C", "T", "E", "D", "_">> \o ToUpper(match.type) \o <<"]">>

\* the columns of line l (from 1) that no match covers
Outside(text, matches, l) ==
    { c \in 1..Len(LinesOf(text)[l]) :
        \A i \in DOMAIN matches : matches[i].line = l => c \notin Span(matches[i]) }

RECURSIVE ReplacedFrom(_, _, _, _)
\* line l from column c on, read column by column: a character outside the
\* matches as it is, the first column of a match as its token, the other
\* columns of a match as nothing
ReplacedFrom(text, matches, l, c) ==
    LET line == LinesOf(text)[l]
        starting == { i \in DOMAIN matches :
                        matches[i].line = l /\ matches[i].column + 1 = c }
    IN  IF c > Len(line) THEN <<>>
        ELSE (IF starting /= {} THEN Token(matches[CHOOSE i \in starting : TRUE])
              ELSE IF c \in Outside(text, matches, l) THEN <<line[c]>>
              ELSE <<>>)
             \o ReplacedFrom(text, matches, l, c + 1)

RECURSIVE Ascending(_, _, _)
\* the members of the set of columns between c and last, in ascending order
Ascending(columns, c, last) ==
    IF c > last THEN <<>>
    ELSE (IF c \in columns THEN <<c>> ELSE <<>>) \o Ascending(columns, c + 1, last)

\* C28 as stated: every line of the redacted text is the line of the input
\* with the span of each retained match replaced by its token, and the
\* characters outside every match are all kept, in their order, whether or not
\* matches of different patterns overlap on the line.
C28_OutsideMatchesKept ==
    call.op = "redact" =>
        LET matches == call.result.matches
            lines == LinesOf(call.text)
            redactedLines == LinesOf(call.result.redactedText)
            origins == Origins(call.text, matches)
            kept(l) == LET outside == Outside(call.text, matches, l)
                           Test(c) == c \in outside
                       IN  SelectSeq(origins[l], Test)
        IN  \A l \in DOMAIN lines :
              /\ kept(l) = Ascending(Outside(call.text, matches, l), 1, Len(lines[l]))
              /\ ~Overlapping(matches) =>
                    redactedLines[l] = ReplacedFrom(call.text, matches, l, 1)

\* the part of C28 that the code keeps: when no two matches overlap, every
\* line of the redacted text is the line of the input with each match replaced
\* by its token and nothing else changed
C28_DisjointMatchesReplaced ==
    call.op = "redact" /\ ~Overlapping(call.result.matches) =>
        \A l \in DOMAIN LinesOf(call.text) :
            LinesOf(call.result.redactedText)[l]
                = ReplacedFrom(call.text, call.result.matches, l, 1)

(***************************************************************************)
(* The patch tools on a disk that fails.  The agent builds a diff and      *)
(* applies it, or applies a list of diffs; during each apply one disk      *)
(* operation may throw.  call.before is the disk as the call found it.     *)
(***************************************************************************)
\* the disk operations of each diff of a list: all succeed, or one operation
\* of one diff throws
FailingIoLists(n) ==
    { [ i \in 1..n |-> IF i = k THEN io ELSE "ok" ] : k \in 1..n, io \in IoOutcomes }

ApplyPatchOnFailingDisk ==
    /\ call = NoCall
    /\ diff /= NoDiff
    /\ \E options \in ApplyOptions, io \in IoOutcomes :
         LET r == applyPatch(policyGate, policyConfig, fs, diff, options, io)
         IN  /\ fs' = r.fs
             /\ call' = [ op |-> "applyPatch", diff |-> diff, options |-> options,
                          io |-> io, result |-> r.result, before |-> fs ]
    /\ diff' = NoDiff
    /\ UNCHANGED <<gateVars, db, heap, policyGate, auditLog, spawned, proc>>

ApplyPatchesOnFailingDisk ==
    /\ call = NoCall
    /\ diff = NoDiff
    /\ \E diffs \in PatchLists, options \in ApplyOptions :
         \E ios \in FailingIoLists(Len(diffs)) :
            LET r == applyPatches(policyGate, policyConfig, fs, diffs, options, ios)
            IN  /\ fs' = r.fs
                /\ call' = [ op |-> "applyPatches", diffs |-> diffs,
                             options |-> options, ios |-> ios,
                             result |-> [ k \in DOMAIN r \ {"fs"} |-> r[k] ],
                             before |-> fs ]
    /\ UNCHANGED <<gateVars, db, heap, policyGate, diff, auditLog, spawned, proc>>

NextFailingDisk ==
    \/ CreateDiff
    \/ CreateDiffFromFile
    \/ ApplyPatchOnFailingDisk
    \/ ApplyPatchesOnFailingDisk
    \/ Return

SpecFailingDisk == InitToolsSpec /\ [][NextFailingDisk]_vars

\* C22 as stated: whatever disk operation fails during an apply, applyPatch
\* and applyPatches return and do not reject; a result of success means the
\* target holds the patched content; a failure carries an error and, when a
\* backup of the target was asked for, leaves the target as the call found it.
C22_StructuredFailure ==
    /\ call.op = "applyPatch" =>
         /\ ~Rejected(call.result)
         /\ call.result.success /\ call.diff.hasChanges /\ ~call.options.dryRun =>
               fs.file = applyDiffPatch(call.diff.oldContent, call.diff.patch)
         /\ ~call.result.success =>
               /\ "error" \in DOMAIN call.result
               /\ call.options.backup /\ call.before.file /= NoFile =>
                     fs.file = call.before.file
    /\ call.op = "applyPatches" =>
         /\ ~Rejected(call.result)
         /\ \A i \in DOMAIN call.result.results :
              ~call.result.results[i].success =>
                  "error" \in DOMAIN call.result.results[i]

\* the part of C22 that the code keeps: as long as the copy back from the
\* backup does not throw, every failure of the disk is returned as a failed
\* Apply Result with its error, and the target is as the call found it when a
\* backup was asked for
C22_FailureReturnedUnlessRollbackThrows ==
    /\ call.op = "applyPatch" /\ call.io /= "rollbackFails" =>
         /\ ~Rejected(call.result)
         /\ call.result.success /\ call.diff.hasChanges /\ ~call.options.dryRun =>
               fs.file = applyDiffPatch(call.diff.oldContent, call.diff.patch)
         /\ ~call.result.success =>
               /\ "error" \in DOMAIN call.result
               /\ call.options.backup /\ call.before.file /= NoFile =>
                     fs.file = call.before.file
    /\ call.op = "applyPatches"
         /\ (\A i \in DOMAIN call.ios : call.ios[i] /= "rollbackFails") =>
         /\ ~Rejected(call.result)
         /\ \A i \in DOMAIN call.result.results :
              ~call.result.results[i].success =>
                  "error" \in DOMAIN call.result.results[i]

\* a write that threw and left the target empty, undone from the backup
C22_RestoredWitness ==
    /\ call.op = "applyPatch"
    /\ call.io = "writeTruncates"
    /\ call.result.success = FALSE
    /\ call.before.file \notin {NoFile, <<>>}
    /\ fs.file = call.before.file
    /\ fs.backup = call.before.file

\* C23 as stated: every Exec Result returned by execute, executeStream or
\* executePreset has success = true exactly when its exit code is 0.
C23_SuccessIffExitZero ==
    (call /= NoCall /\ call.op \in {"execute", "executeStream", "executePreset"}) =>
        (call.result.success <=> call.result.exitCode = "0")

\* the part of C23 that the code keeps: the results of execute and of
\* executePreset have success = true exactly when the exit code is 0, and no
\* result of executeStream is a failure with exit code 0
C23_ExecuteSuccessIffExitZero ==
    (call /= NoCall /\ call.op \in {"execute", "executeStream", "executePreset"}) =>
        /\ call.op /= "executeStream" =>
              (call.result.success <=> call.result.exitCode = "0")
        /\ call.result.exitCode = "0" => call.result.success

\* a command run by execute that exited with status 0
C23_ExecuteWitness ==
    /\ call.op = "execute"
    /\ proc /= NoProc
    /\ call.result.success
    /\ call.result.exitCode = "0"

(***************************************************************************)
(* FileTools.grep (tools/file-tools.ts).  The workspace is the list of the *)
(* files that listFiles returns, in its order; a file is skipped for its   *)
(* size or extension, or cannot be read (readFile throws: denied by the    *)
(* gate, gone, not readable), or has lines.  The pattern is one character; *)
(* a pattern given as a string becomes a regular expression with flag g,   *)
(* which keeps in lastIndex where its last match ended, a pattern given as *)
(* a regular expression has the flags of the caller.                       *)
(***************************************************************************)
\* regex.test(line) with the regular expression at lastIndex: whether it
\* matches, and the lastIndex it leaves
test(regex, lastIndex, line) ==
    LET from == IF regex.global THEN lastIndex ELSE 0
        found == { i \in (from + 1)..Len(line) : line[i] = regex.source }
    IN  IF found = {}
        THEN [ matches |-> FALSE, lastIndex |-> 0 ]
        ELSE [ matches |-> TRUE,
               lastIndex |-> IF regex.global
                             THEN CHOOSE i \in found : \A j \in found : i <= j
                             ELSE lastIndex ]

RECURSIVE GrepLines(_, _, _, _, _, _)
\* lines.forEach of grep from line index on: every line that matches is
\* pushed; the return of the callback ends the callback, not the loop
GrepLines(regex, file, lines, index, maxResults, state) ==
    IF index > Len(lines) THEN state
    ELSE LET t == test(regex, state.lastIndex, lines[index])
         IN  GrepLines(regex, file, lines, index + 1, maxResults,
                       [ lastIndex |-> t.lastIndex,
                         results |-> IF t.matches
                                     THEN Append(state.results,
                                                 [ file |-> file, line |-> index,
                                                   content |-> Trim(lines[index]) ])
                                     ELSE state.results ])

RECURSIVE GrepFiles(_, _, _, _, _)
\* for (const fileInfo of files) of grep from file index on
GrepFiles(regex, files, index, maxResults, state) ==
    IF index > Len(files) THEN state.results
    ELSE LET fileInfo == files[index]
         IN  IF fileInfo.kind = "skipped"
             THEN GrepFiles(regex, files, index + 1, maxResults, state)
             ELSE LET after == IF fileInfo.kind = "unreadable" THEN state
                               ELSE GrepLines(regex, index, fileInfo.lines, 1,
                                              maxResults, state)
                  IN  IF Len(after.results) >= maxResults THEN after.results
                      ELSE GrepFiles(regex, files, index + 1, maxResults, after)

\* grep(pattern, dirPath, {maxResults})
grep(regex, files, maxResults) ==
    GrepFiles(regex, files, 1, maxResults, [ lastIndex |-> 0, results |-> <<>> ])

\* the lines of the files: two that hold the pattern, one that does not
GrepLinePool == { <<"t">>, <<"a", "t">>, <<"b">> }

FileInfos ==
    { [ kind |-> "skipped", lines |-> <<>> ], [ kind |-> "unreadable", lines |-> <<>> ] }
    \cup { [ kind |-> "text", lines |-> lines ] :
             lines \in SeqsUpTo(GrepLinePool, MaxFileLines) \ { <<>> } }

Regexes == [ source : {"t"}, global : BOOLEAN ]

Grep ==
    /\ call = NoCall
    /\ \E regex \in Regexes, files \in SeqsUpTo(FileInfos, MaxFiles),
          maxResults \in 1..MaxResults :
         call' = [ op |-> "grep", regex |-> regex, files |-> files,
                   maxResults |-> maxResults,
                   results |-> grep(regex, files, maxResults) ]
    /\ UNCHANGED <<gateVars, db, heap, policyGate, fs, diff, auditLog, spawned, proc>>

NextGrep == Grep \/ Return

SpecGrep == InitAudit /\ [][NextGrep]_vars

\* C24 as stated: grep returns at most maxResults entries, whatever the files
\* hold, also when one file has more matching lines than are still wanted.
C24_AtMostMaxResults ==
    call.op = "grep" => Len(call.results) <= call.maxResults

\* the part of C24 that the code keeps: once the limit is reached no further
\* file is searched, so the entries beyond maxResults all come from the file
\* of the entry that reached it
C24_NoFileAfterLimit ==
    call.op = "grep" =>
        \A i \in DOMAIN call.results :
            i > call.maxResults =>
                call.results[i].file = call.results[call.maxResults].file

\* a search that reached the limit in one file and left the next one unread
C24_LimitWitness ==
    /\ call.op = "grep"
    /\ Len(call.files) = 2
    /\ call.files[2].kind = "text"
    /\ \E i \in DOMAIN call.files[2].lines : Includes(call.files[2].lines[i], "t")
    /\ Len(call.results) = call.maxResults
    /\ \A i \in DOMAIN call.results : call.results[i].file = 1

(***************************************************************************)
(* MemoryStore (memory/memory-store.ts).  The table memory is the set of   *)
(* its rows; UNIQUE(type, category, key) is kept by the insert of save,    *)
(* which updates the row of the triple when there is one.  The clock of    *)
(* the database counts seconds, the resolution of CURRENT_TIMESTAMP.  The  *)
(* type and the category of an entry are strings, its key and its value    *)
(* sequences of characters (LIKE looks into them).  A field of a query     *)
(* that is undefined is written as the empty string, the empty sequence or *)
(* 0: the code tests each field for truthiness, which takes undefined and  *)
(* these values alike.                                                     *)
(***************************************************************************)
\* the row of the triple, in a set that holds it
RowOf(rows, type, category, key) ==
    CHOOSE row \in rows : row.type = type /\ row.category = category /\ row.key = key

HasRow(rows, type, category, key) ==
    \E row \in rows : row.type = type /\ row.category = category /\ row.key = key

\* save(entry): INSERT ... ON CONFLICT(type, category, key) DO UPDATE SET value,
\* metadata; the trigger update_timestamp sets updated_at of an updated row
save(store, entry) ==
    IF HasRow(store.rows, entry.type, entry.category, entry.key)
    THEN LET old == RowOf(store.rows, entry.type, entry.category, entry.key)
             new == [old EXCEPT !.value = entry.value, !.metadata = entry.metadata,
                                !.updated_at = store.now]
         IN  [ store EXCEPT !.rows = (store.rows \ {old}) \cup {new} ]
    ELSE [ store EXCEPT
             !.rows = store.rows \cup
                 { [ id |-> store.nextId, type |-> entry.type,
                     category |-> entry.category, key |-> entry.key,
                     value |-> entry.value, metadata |-> entry.metadata,
                     created_at |-> store.now, updated_at |-> store.now ] },
             !.nextId = store.nextId + 1,
             !.lastInsertRowid = store.nextId ]

\* key LIKE '%search%': the search text is somewhere in the text, letters
\* compared without regard to case (the search texts here hold no % and no _)
Like(text, search) == IncludesStr(ToLower(text), ToLower(search))

\* the WHERE clause that query builds
Selected(rows, q) ==
    { row \in rows :
        /\ q.type /= "" => row.type = q.type
        /\ q.category /= "" => row.category = q.category
        /\ q.key /= <<>> => row.key = q.key
        /\ q.search /= <<>> => Like(row.key, q.search) \/ Like(row.value, q.search) }

\* query(query): the rows selected, ORDER BY updated_at DESC, LIMIT limit.  The
\* order of rows updated in the same second is not defined: every order that
\* the clause allows is a result the database may give.
query(store, q) ==
    LET selected == Selected(store.rows, q)
        n == Cardinality(selected)
        ordered == { rows \in [ 1..n -> selected ] :
                       /\ \A i, j \in 1..n : i /= j => rows[i] /= rows[j]
                       /\ \A i, j \in 1..n :
                            i < j => rows[i].updated_at >= rows[j].updated_at }
    IN  { IF q.limit /= 0 /\ q.limit < n THEN SubSeq(rows, 1, q.limit) ELSE rows :
            rows \in ordered }

\* get(type, category, key): the first result of the query on the three
\* fields, or null
NoEntry == [ id |-> 0 ]

get(store, type, category, key) ==
    { IF Len(results) > 0 THEN results[1] ELSE NoEntry :
        results \in query(store, [ type |-> type, category |-> category, key |-> key,
                                   search |-> <<>>, limit |-> 0 ]) }

\* the WHERE clause that delete builds
Deleted(rows, q) ==
    { row \in rows :
        /\ q.type /= "" => row.type = q.type
        /\ q.category /= "" => row.category = q.category
        /\ q.key /= <<>> => row.key = q.key }

\* delete(query): the store it leaves and the number of rows it removed
delete(store, q) ==
    LET gone == Deleted(store.rows, q)
    IN  [ store |-> [ store EXCEPT !.rows = store.rows \ gone ],
          changes |-> Cardinality(gone) ]

\* clear(type)
clear(store, type) ==
    IF type /= ""
    THEN delete(store, [ type |-> type, category |-> "", key |-> <<>>,
                         search |-> <<>>, limit |-> 0 ])
    ELSE [ store |-> [ store EXCEPT !.rows = {} ],
           changes |-> Cardinality(store.rows) ]

(***************************************************************************)
(* The memory store in use: entries are saved, queried, read and deleted,  *)
(* and the clock ticks.  call is the call that just returned, call.before  *)
(* the rows as it found them.                                              *)
(***************************************************************************)
MemoryTypes == { "project", "user" }
Categories == { "", "c" }
Keys == { <<"k">> }
Values == { <<"v">>, <<"w">> }

Entries ==
    [ type : MemoryTypes, category : Categories, key : Keys, value : Values,
      metadata : { "null", "{}" } ]

MemoryQueries ==
    [ type : MemoryTypes \cup {""}, category : Categories, key : Keys \cup { <<>> },
      search : { <<>>, <<"v">> }, limit : { 0, 1 } ]

InitMemory ==
    /\ policyConfig \in { c \in ToolPolicies : c.path_allowlist = {} }
    /\ tool = NoTool
    /\ context = NoContext
    /\ checkResult = NoResult
    /\ policyUpdated = FALSE
    /\ policyGate = FALSE
    /\ fs = [ dir |-> TRUE, file |-> NoFile, backup |-> NoFile ]
    /\ diff = NoDiff
    /\ auditLog = <<>>
    /\ spawned = {}
    /\ call = NoCall
    /\ proc = NoProc
    /\ db = [ rows |-> {}, nextId |-> 1, lastInsertRowid |-> 0, now |-> 0 ]
    /\ heap = NoHeap

Save ==
    /\ call = NoCall
    /\ \E entry \in Entries :
         /\ HasRow(db.rows, entry.type, entry.category, entry.key)
               \/ db.nextId <= MaxRowId
         /\ db' = save(db, entry)
         /\ call' = [ op |-> "save", entry |-> entry, before |-> db.rows,
                      result |-> save(db, entry).lastInsertRowid ]
    /\ UNCHANGED <<gateVars, heap, policyGate, fs, diff, auditLog, spawned, proc>>

Query ==
    /\ call = NoCall
    /\ \E q \in MemoryQueries :
         \E results \in query(db, q) :
            call' = [ op |-> "query", query |-> q, before |-> db.rows,
                      result |-> results ]
    /\ UNCHANGED <<gateVars, heap, policyGate, fs, diff, auditLog, spawned, proc, db>>

Get ==
    /\ call = NoCall
    /\ \E type \in MemoryTypes, category \in Categories, key \in Keys :
         \E entry \in get(db, type, category, key) :
            call' = [ op |-> "get", type |-> type, category |-> category,
                      key |-> key, before |-> db.rows, result |-> entry ]
    /\ UNCHANGED <<gateVars, heap, policyGate, fs, diff, auditLog, spawned, proc, db>>

Delete ==
    /\ call = NoCall
    /\ \E q \in MemoryQueries :
         /\ db' = delete(db, q).store
         /\ call' = [ op |-> "delete", query |-> q, before |-> db.rows,
                      result |-> delete(db, q).changes ]
    /\ UNCHANGED <<gateVars, heap, policyGate, fs, diff, auditLog, spawned, proc>>

Clear ==
    /\ call = NoCall
    /\ \E type \in MemoryTypes \cup {""} :
         /\ db' = clear(db, type).store
         /\ call' = [ op |-> "clear", type |-> type, before |-> db.rows,
                      result |-> clear(db, type).changes ]
    /\ UNCHANGED <<gateVars, heap, policyGate, fs, diff, auditLog, spawned, proc>>

\* a second passes
Tick ==
    /\ call = NoCall
    /\ db.now < MaxClock
    /\ db' = [ db EXCEPT !.now = db.now + 1 ]
    /\ UNCHANGED <<gateVars, heap, policyGate, fs, diff, auditLog, spawned, call, proc>>

NextMemory == Save \/ Query \/ Get \/ Delete \/ Clear \/ Tick \/ Return

SpecMemory == InitMemory /\ [][NextMemory]_vars

\* the rows of the set that have the triple of the row
SameTriple(rows, row) ==
    { other \in rows :
        other.type = row.type /\ other.category = row.category /\ other.key = row.key }

\* C25 as stated: the store never holds, and query never returns, two entries
\* with one (type, category, key); a save on a triple that has an entry puts
\* the new value and metadata into that entry and adds none; and
\* get(type, category, key) returns the entry of the triple, which holds the
\* value of its last save, or null when the triple has no entry.
C25_OneEntryPerTriple ==
    /\ \A row \in db.rows : SameTriple(db.rows, row) = {row}
    /\ call.op = "query" =>
         \A i, j \in DOMAIN call.result :
            i /= j => call.result[j] \notin SameTriple({call.result[i]}, call.result[j])
    /\ call.op = "save" =>
         LET entry == call.entry
             row == RowOf(db.rows, entry.type, entry.category, entry.key)
         IN  /\ HasRow(db.rows, entry.type, entry.category, entry.key)
             /\ row.value = entry.value
             /\ row.metadata = entry.metadata
             /\ HasRow(call.before, entry.type, entry.category, entry.key) =>
                   Cardinality(db.rows) = Cardinality(call.before)
    /\ call.op = "get" =>
         IF HasRow(call.before, call.type, call.category, call.key)
         THEN call.result = RowOf(call.before, call.type, call.category, call.key)
         ELSE call.result = NoEntry

\* the part of C25 that the code keeps: all of it but get for a triple whose
\* category is the empty string
C25_NamedCategory ==
    /\ \A row \in db.rows : SameTriple(db.rows, row) = {row}
    /\ call.op = "query" =>
         \A i, j \in DOMAIN call.result :
            i /= j => call.result[j] \notin SameTriple({call.result[i]}, call.result[j])
    /\ call.op = "save" =>
         LET entry == call.entry
             row == RowOf(db.rows, entry.type, entry.category, entry.key)
         IN  /\ HasRow(db.rows, entry.type, entry.category, entry.key)
             /\ row.value = entry.value
             /\ row.metadata = entry.metadata
             /\ HasRow(call.before, entry.type, entry.category, entry.key) =>
                   Cardinality(db.rows) = Cardinality(call.before)
    /\ call.op = "get" /\ call.category /= "" =>
         IF HasRow(call.before, call.type, call.category, call.key)
         THEN call.result = RowOf(call.before, call.type, call.category, call.key)
         ELSE call.result = NoEntry

\* a save that replaced the value of an entry, and a get that then read it
C25_ReplacedWitness ==
    /\ call.op = "save"
    /\ HasRow(call.before, call.entry.type, call.entry.category, call.entry.key)
    /\ RowOf(call.before, call.entry.type, call.entry.category, call.entry.key).value
          /= call.entry.value

\* the entries of a result list
Returned(results) == { results[i] : i \in DOMAIN results }

\* C29 as stated: delete(q) removes the entries that query(q) would return on
\* the same store, returns their number and leaves every other entry as it
\* was, whichever of type, category, key, search and limit the filter gives.
C29_DeleteRemovesWhatQueryReturns ==
    call.op = "delete" =>
        /\ db.rows \subseteq call.before
        /\ \E results \in query([ rows |-> call.before ], call.query) :
              /\ call.before \ db.rows = Returned(results)
              /\ call.result = Len(results)

\* the part of C29 that the code keeps: for a filter without search and
\* without limit, delete removes what query returns and returns their number
C29_WithoutSearchAndLimit ==
    (call.op = "delete" /\ call.query.search = <<>> /\ call.query.limit = 0) =>
        /\ db.rows \subseteq call.before
        /\ \E results \in query([ rows |-> call.before ], call.query) :
              /\ call.before \ db.rows = Returned(results)
              /\ call.result = Len(results)

\* a delete by category that removed one entry of two
C29_DeleteWitness ==
    /\ call.op = "delete"
    /\ call.query.search = <<>> /\ call.query.limit = 0
    /\ call.query.category /= ""
    /\ Cardinality(call.before) = 2
    /\ Cardinality(db.rows) = 1
    /\ call.result = 1

(***************************************************************************)
(* The file of the audit log.  The constructor of AuditLogger names the    *)
(* file after the day it runs on and keeps the name in logPath; log        *)
(* appends to logPath.  The logger of SpecAudit was constructed at the     *)
(* first of the two instants, on a host whose time zone is UTC.            *)
(***************************************************************************)
ConstructedAt == "2025-01-01T23:59:59.000Z"

\* getDateString() at the instant: year, month and day of the local time
getDateString(date) ==
    CASE date = "2025-01-01T23:59:59.000Z" -> "2025-01-01"
      [] date = "2025-01-02T00:00:00.000Z" -> "2025-01-02"

\* <workspace>/.sca/audit/audit-<day>.log
AuditFile(day) == << ".sca", "audit", "audit-", day, ".log" >>

\* this.logPath, set by the constructor
logPath == AuditFile(getDateString(ConstructedAt))

\* C26 as stated: every entry is in the file named after the calendar day of
\* its own timestamp, also when the logger was constructed on an earlier day.
C26_PartitionedByDay ==
    \A i \in DOMAIN auditLog :
        AuditFile(getDateString(auditLog[i].timestamp)) = logPath

(***************************************************************************)
(* Several gates in one process.  A policy configuration is an object: a   *)
(* gate keeps the reference its constructor was handed, a ConfigManager    *)
(* keeps the reference loadConfig returned, and DEFAULT_CONFIG is the      *)
(* object of the module.  heap.objects maps each reference to the value    *)
(* of its object.                                                          *)
(***************************************************************************)
\* DEFAULT_CONFIG.policies in the alphabet of the model: "n t" and "p*" for
\* 'npm test' and 'pytest*', "**" for the allowlist, ".e*" and "k/**" for
\* '.env*' and 'secrets/**'
DEFAULT_CONFIG ==
    [ policies |-> [ exec_allowlist |-> ExecPatterns,
                     path_allowlist |-> { <<"*", "*">> },
                     path_denylist |-> DenyPatterns,
                     require_confirmation |-> TRUE ] ]

DefaultRef == "DEFAULT_CONFIG.policies"
NoRef == "none"
\* the references of the objects the process can still allocate
FreshRefs == { "o1", "o2" }
GateNames == { "a", "b" }
ManagerNames == { "m" }

\* the policies section of a parsed config.yml, and the argument of updatePolicy
LoadedPolicies ==
    { p \in PartialPolicies : DOMAIN p \subseteq {"path_denylist"} }
NewPolicies ==
    { p \in PartialPolicies :
        \/ DOMAIN p \subseteq {"path_denylist"}
        \/ DOMAIN p = {"require_confirmation"} }

Allocated == DOMAIN heap.objects
NextRef == CHOOSE r \in FreshRefs : r \notin Allocated

\* the heap after a new object with this value is allocated at NextRef
Allocate(value) ==
    [ r \in Allocated \cup {NextRef} |->
        IF r = NextRef THEN value ELSE heap.objects[r] ]

\* mergeWithDefaults(loaded).policies: { ...DEFAULT_CONFIG.policies, ...loaded.policies }
mergeWithDefaults(loaded) == updatePolicy(heap.objects[DefaultRef], loaded)

\* ConfigManager.getPolicyConfig(): this.config.policies, the object itself
getPolicyConfig(m) == heap.managers[m]

InitGates ==
    /\ policyConfig = DEFAULT_CONFIG.policies
    /\ tool = NoTool
    /\ context = NoContext
    /\ checkResult = NoResult
    /\ policyUpdated = FALSE
    /\ policyGate = TRUE
    /\ fs = [ dir |-> TRUE, file |-> NoFile, backup |-> NoFile ]
    /\ diff = NoDiff
    /\ auditLog = <<>>
    /\ spawned = {}
    /\ call = NoCall
    /\ proc = NoProc
    /\ db = NoDb
    /\ heap = [ objects |-> [ r \in {DefaultRef} |-> DEFAULT_CONFIG.policies ],
                gates |-> [ g \in GateNames |-> NoRef ],
                managers |-> [ m \in ManagerNames |-> NoRef ] ]

\* loadConfig: without a config file (or with one that does not parse) the
\* result is DEFAULT_CONFIG itself; otherwise a new object merged from the file
LoadConfig(m) ==
    \/ heap' = [heap EXCEPT !.managers[m] = DefaultRef]
    \/ /\ FreshRefs \ Allocated /= {}
       /\ \E loaded \in LoadedPolicies :
            heap' = [heap EXCEPT !.objects = Allocate(mergeWithDefaults(loaded)),
                                 !.managers[m] = NextRef]

\* new ConfigManager(workspaceRoot)
NewConfigManager ==
    /\ call = NoCall
    /\ \E m \in ManagerNames :
         /\ heap.managers[m] = NoRef
         /\ LoadConfig(m)
         /\ call' = [ op |-> "ConfigManager", manager |-> m ]
    /\ UNCHANGED <<gateVars, policyGate, fs, diff, auditLog, spawned, proc, db>>

\* ConfigManager.reload()
Reload ==
    /\ call = NoCall
    /\ \E m \in ManagerNames :
         /\ heap.managers[m] /= NoRef
         /\ LoadConfig(m)
         /\ call' = [ op |-> "reload", manager |-> m ]
    /\ UNCHANGED <<gateVars, policyGate, fs, diff, auditLog, spawned, proc, db>>

\* new PolicyGate(configManager.getPolicyConfig()), as the run command does
NewPolicyGate ==
    /\ call = NoCall
    /\ \E g \in GateNames, m \in ManagerNames :
         /\ heap.gates[g] = NoRef
         /\ heap.managers[m] /= NoRef
         /\ heap' = [heap EXCEPT !.gates[g] = getPolicyConfig(m)]
         /\ call' = [ op |-> "PolicyGate", gate |-> g ]
    /\ UNCHANGED <<gateVars, policyGate, fs, diff, auditLog, spawned, proc, db>>

\* new PolicyGate({ ... }) on an object literal of the caller, as the tests do
NewPolicyGateOnLiteral ==
    /\ call = NoCall
    /\ FreshRefs \ Allocated /= {}
    /\ \E g \in GateNames, loaded \in LoadedPolicies :
         /\ heap.gates[g] = NoRef
         /\ heap' = [heap EXCEPT
                       !.objects = Allocate(updatePolicy(DEFAULT_CONFIG.policies, loaded)),
                       !.gates[g] = NextRef]
         /\ call' = [ op |-> "PolicyGate", gate |-> g ]
    /\ UNCHANGED <<gateVars, policyGate, fs, diff, auditLog, spawned, proc, db>>

\* the tools whose decision the gates are asked for
ProbeTools ==
    [ risk_level : {"exec", "network"} ]
    \cup [ risk_level : {"read", "write"}, scope : { <<path>> : path \in Paths } ]

\* gate.checkTool(tool, context)
GateCheckTool ==
    /\ call = NoCall
    /\ \E g \in GateNames, t \in ProbeTools, ctx \in Contexts :
         /\ heap.gates[g] /= NoRef
         /\ (t.risk_level = "exec") = (ctx /= NoContext)
         /\ tool' = t
         /\ context' = ctx
         /\ checkResult' = checkTool(heap.objects[heap.gates[g]], t, ctx)
         /\ call' = [ op |-> "checkTool", gate |-> g ]
    /\ UNCHANGED <<policyConfig, policyUpdated, policyGate, fs, diff, auditLog,
                   spawned, proc, db, heap>>

\* gate.updatePolicy(newPolicy): Object.assign on the object the gate refers to
GateUpdatePolicy ==
    /\ call = NoCall
    /\ \E g \in GateNames, newPolicy \in NewPolicies :
         /\ heap.gates[g] /= NoRef
         /\ heap' = [heap EXCEPT !.objects[heap.gates[g]] =
                                    updatePolicy(heap.objects[heap.gates[g]], newPolicy)]
         /\ call' = [ op |-> "updatePolicy", gate |-> g ]
    /\ UNCHANGED <<gateVars, policyGate, fs, diff, auditLog, spawned, proc, db>>

\* the caller takes the result of the call
GateReturn ==
    /\ call /= NoCall
    /\ call' = NoCall
    /\ tool' = NoTool
    /\ context' = NoContext
    /\ checkResult' = NoResult
    /\ UNCHANGED <<policyConfig, policyUpdated, policyGate, fs, diff, auditLog,
                   spawned, proc, db, heap>>

NextGates ==
    \/ NewConfigManager
    \/ Reload
    \/ NewPolicyGate
    \/ NewPolicyGateOnLiteral
    \/ GateCheckTool
    \/ GateUpdatePolicy
    \/ GateReturn

SpecGates == InitGates /\ [][NextGates]_vars

\* every decision a gate gives on the policy object it refers to
Decisions(objects, ref) ==
    [ t \in ProbeTools |->
        IF t.risk_level = "exec"
        THEN [ command \in Commands |->
                 checkTool(objects[ref], t, [command |-> command]) ]
        ELSE checkTool(objects[ref], t, NoContext) ]

\* the step is the call of this operation on this gate
CallOn(op, g) == call = NoCall /\ call'.op = op /\ call'.gate = g

\* C27: gates do not interfere.  An evaluation by a gate leaves every policy
\* object as it was, and updatePolicy on one gate leaves the decisions of
\* every other gate, the policy every ConfigManager holds and the policy of
\* DEFAULT_CONFIG as they were.
C27_GatesDoNotInterfere ==
    [][ \A g \in GateNames :
          /\ CallOn("checkTool", g) => heap' = heap
          /\ CallOn("updatePolicy", g) =>
               /\ \A h \in GateNames \ {g} :
                    heap.gates[h] /= NoRef =>
                      Decisions(heap'.objects, heap'.gates[h])
                        = Decisions(heap.objects, heap.gates[h])
               /\ \A m \in ManagerNames :
                    heap.managers[m] /= NoRef =>
                      heap'.objects[heap'.managers[m]] = heap.objects[heap.managers[m]]
               /\ heap'.objects[DefaultRef] = DEFAULT_CONFIG.policies ]_vars

\* the parts of C27 that the code keeps: an evaluation modifies no policy, and
\* updatePolicy on a gate changes no object but the one the gate refers to
C27_EvaluationKeepsPolicy ==
    [][ \A g \in GateNames : CallOn("checkTool", g) => heap' = heap ]_vars

C27_OnlyOwnObjectUpdated ==
    [][ \A g \in GateNames :
          CallOn("updatePolicy", g) =>
            \A r \in Allocated \ {heap.gates[g]} : heap'.objects[r] = heap.objects[r] ]_vars

(***************************************************************************)
(* The file and patch tools on paths that are spelled in several ways.     *)
(* Both tools hand the path as the caller wrote it to the gate and open    *)
(* join(workspaceRoot, filePath).  fs maps each file of the workspace,     *)
(* named by its normalized path under the root, to its disk.               *)
(***************************************************************************)
RECURSIVE NormalizeSegments(_, _)
\* path.normalize on the segments of a relative path: "" and "." are dropped,
\* ".." removes the segment before it
NormalizeSegments(segs, out) ==
    IF segs = <<>> THEN out
    ELSE IF Head(segs) = <<>> \/ Head(segs) = <<".">>
    THEN NormalizeSegments(Tail(segs), out)
    ELSE IF Head(segs) = <<".", ".">> /\ out /= <<>> /\ out[Len(out)] /= <<".", ".">>
    THEN NormalizeSegments(Tail(segs), SubSeq(out, 1, Len(out) - 1))
    ELSE NormalizeSegments(Tail(segs), Append(out, Head(segs)))

\* resolvePath(filePath) = join(this.workspaceRoot, filePath), as the path
\* under the workspace root
resolvePath(filePath) ==
    Join(NormalizeSegments(SplitOn(filePath, "/", <<>>), <<>>), "/")

\* the paths a caller writes: .e ./.e k/a ./k/a s/../k/a s/a ./s/a
Spellings ==
    { <<".", "e">>,
      <<".", "/", ".", "e">>,
      <<"k", "/", "a">>,
      <<".", "/", "k", "/", "a">>,
      <<"s", "/", ".", ".", "/", "k", "/", "a">>,
      <<"s", "/", "a">>,
      <<".", "/", "s", "/", "a">> }

WorkspaceFiles == { resolvePath(filePath) : filePath \in Spellings }

\* the policies of the workspace: the allowlist may name paths from "./"
SpellingPolicies ==
    [ exec_allowlist : { {} },
      path_allowlist : SUBSET (AllowPatterns \cup { <<".", "/", "*", "*">> }),
      path_denylist : SUBSET DenyPatterns,
      require_confirmation : { TRUE } ]

\* FileTools.readFile(filePath) on a regular file below the size limit
readFile(gate, cfg, disk, filePath) ==
    LET check == checkTool(cfg, [risk_level |-> "read", scope |-> <<filePath>>],
                           NoContext)
    IN  IF disk.file = NoFile
        THEN [ throws |-> <<"File not found", filePath>> ]
        ELSE IF gate /\ ~check.allowed
        THEN [ throws |-> <<"Policy denied", check.reason>> ]
        ELSE [ returns |-> disk.file ]

InitPaths ==
    /\ policyConfig \in SpellingPolicies
    /\ tool = NoTool
    /\ context = NoContext
    /\ checkResult = NoResult
    /\ policyUpdated = FALSE
    /\ policyGate = TRUE
    /\ fs = [ file \in WorkspaceFiles |->
                [ dir |-> TRUE, file |-> <<"a">>, backup |-> NoFile ] ]
    /\ diff = NoDiff
    /\ auditLog = <<>>
    /\ spawned = {}
    /\ call = NoCall
    /\ proc = NoProc
    /\ db = NoDb
    /\ heap = NoHeap

ReadFile ==
    /\ call = NoCall
    /\ \E filePath \in Spellings :
         call' = [ op |-> "readFile", filePath |-> filePath, before |-> fs,
                   result |-> readFile(policyGate, policyConfig,
                                       fs[resolvePath(filePath)], filePath) ]
    /\ UNCHANGED <<gateVars, db, heap, policyGate, fs, diff, auditLog, spawned, proc>>

CreateDiffOfPath ==
    /\ call = NoCall
    /\ diff = NoDiff
    /\ \E filePath \in Spellings :
         diff' = createDiffFromFile(fs[resolvePath(filePath)], filePath, <<"b">>)
    /\ UNCHANGED <<gateVars, db, heap, policyGate, fs, auditLog, spawned, call, proc>>

ApplyPatchOfPath ==
    /\ call = NoCall
    /\ diff /= NoDiff
    /\ \E options \in ApplyOptions :
         LET fullPath == resolvePath(diff.filePath)
             r == applyPatch(policyGate, policyConfig, fs[fullPath], diff, options, "ok")
         IN  /\ fs' = [fs EXCEPT ![fullPath] = r.fs]
             /\ call' = [ op |-> "applyPatch", filePath |-> diff.filePath,
                          options |-> options, result |-> r.result, before |-> fs ]
    /\ diff' = NoDiff
    /\ UNCHANGED <<gateVars, db, heap, policyGate, auditLog, spawned, proc>>

NextPaths == ReadFile \/ CreateDiffOfPath \/ ApplyPatchOfPath \/ Return

SpecPaths == InitPaths /\ [][NextPaths]_vars

\* the decision of the gate for a read of the path
ReadDecision(path) ==
    checkTool(policyConfig, [risk_level |-> "read", scope |-> <<path>>], NoContext)

\* readFile returned the content of the file
ReadReturned == call.op = "readFile" /\ "returns" \in DOMAIN call.result

\* apply changed the file on disk
ApplyWrote ==
    /\ call.op = "applyPatch"
    /\ fs[resolvePath(call.filePath)].file /= call.before[resolvePath(call.filePath)].file

\* C30: the decision does not depend on the spelling.  Two paths that resolve
\* to the same file get the same read decision and the same write decision;
\* readFile returns, and apply writes, no file whose normalized path is denied.
C30_SpellingIndependent ==
    call.op \in {"readFile", "applyPatch"} =>
      /\ \A q \in Spellings :
           resolvePath(q) = resolvePath(call.filePath) =>
             /\ ReadDecision(q).allowed = ReadDecision(call.filePath).allowed
             /\ WriteDecision(q).allowed = WriteDecision(call.filePath).allowed
      /\ ReadReturned => ReadDecision(resolvePath(call.filePath)).allowed
      /\ ApplyWrote => WriteDecision(resolvePath(call.filePath)).allowed

\* the three parts of C30 on their own
C30_SameDecisions ==
    \A p \in Spellings, q \in Spellings :
        resolvePath(p) = resolvePath(q) =>
          /\ ReadDecision(p).allowed = ReadDecision(q).allowed
          /\ WriteDecision(p).allowed = WriteDecision(q).allowed

C30_NoDeniedRead ==
    ReadReturned => ReadDecision(resolvePath(call.filePath)).allowed

C30_NoDeniedWrite ==
    ApplyWrote => WriteDecision(resolvePath(call.filePath)).allowed

\* what the code keeps: the tools act only on a path the gate allows as written
C30_AllowedAsWritten ==
    /\ ReadReturned => ReadDecision(call.filePath).allowed
    /\ ApplyWrote => WriteDecision(call.filePath).allowed

====
